---- MODULE Spec2Model ----
(***************************************************************************)
(* Alert correlation and incident lifecycle of the incident platform.      *)
(*                                                                         *)
(* The incident store (incidents, incident_timeline, incident_notes) is    *)
(* owned by services/incident-management; the alert store (alerts) by      *)
(* services/alert-ingestion.  Both services exist twice in the repository: *)
(* as a single-file service (main.py) and as a layered package (app/).     *)
(* Both variants of a handler are modelled where they differ.              *)
(***************************************************************************)
EXTENDS Integers, Sequences, FiniteSets, TLC

VARIABLES
    incidents,   \* table incidents: id -> row
    timeline,    \* table incident_timeline: id -> sequence of events in insertion order
    notes,       \* table incident_notes: id -> sequence of note rows
    alerts,      \* table alerts: alert id -> row
    log,         \* history: what each POST /api/v1/alerts was given and answered, in order
    linked,      \* id -> number of link operations on that incident that reported success
    now,         \* the clock (minutes)
    resp,        \* the response of the handler that returned last
    calls,       \* worker -> the request it is handling (position and locals)
    hits,        \* SlidingWindowRateLimiter._hits: key -> times of the hits kept
    schedules,   \* on-call ScheduleRepository._store: team -> schedule
    overrides,   \* on-call OverrideRepository._store: team -> override
    history,     \* on-call HistoryRepository._events, oldest first
    last_known_oncall  \* OnCallService._last_known_oncall: team -> name of the primary

\* the state of the on-call service
oncall_vars == <<schedules, overrides, history, last_known_oncall>>

vars == <<incidents, timeline, notes, alerts, log, linked, now, resp, calls, hits, oncall_vars>>

---------------------------------------------------------------------------
\* Bounds of the model
MaxIncidents == 1     \* incidents created through the incident API
MaxRows == 3          \* no request is accepted once incident_timeline holds this many rows
MaxTime == 1          \* the clock stops here
MaxAlerts == 2        \* alerts received
MaxPrefix == 3        \* the characters of a message that enter its fingerprint (100 in the code)
MaxCalls == 5         \* calls of is_allowed in a run
MaxClock == 3         \* the monotonic clock of the rate limiter stops here
MaxHours == 2         \* the clock of the on-call service stops here
MaxEvents == 2        \* no override or schedule is written once the on-call history holds this many events

\* Program constants and closed enumerations
CORRELATION_WINDOW_MINUTES == 5
VALID_STATUSES == {"open", "acknowledged", "in_progress", "resolved"}

None == "None"        \* Python None / SQL NULL in a text column
NoTime == -1         \* SQL NULL in a timestamp or numeric column
NoId == 0            \* Python None / SQL NULL where an incident id is expected
HasId(id) == id # NoId

Workers == {"w1", "w2"}

\* a table that lets a resolved incident be reopened
ALLOWED_TRANSITIONS_reopen ==
    [s \in VALID_STATUSES |->
        CASE s = "open"         -> {"acknowledged", "in_progress", "resolved"}
          [] s = "acknowledged" -> {"in_progress", "resolved"}
          [] s = "in_progress"  -> {"resolved"}
          [] s = "resolved"     -> {"open"}]

ALLOWED_TRANSITIONS ==
    [s \in VALID_STATUSES |->
        CASE s = "open"         -> {"acknowledged", "in_progress", "resolved"}
          [] s = "acknowledged" -> {"in_progress", "resolved"}
          [] s = "in_progress"  -> {"resolved"}
          [] s = "resolved"     -> {}]

---------------------------------------------------------------------------
\* Helpers

\* uuid.uuid4(): an identifier no row of the table uses yet
NewId(table) == Cardinality(DOMAIN table) + 1

\* the row r with the columns of upd overwritten (UPDATE ... SET)
ApplyUpdates(r, upd) ==
    [c \in DOMAIN r |-> IF c \in DOMAIN upd THEN upd[c] ELSE r[c]]

\* Python truthiness of an optional string
Truthy(s) == s # None /\ s # ""

\* a connection in autocommit: what was written stays written
TxOutcome_autocommit(raised, before, written) == written

\* "with engine.begin()": the block's writes are committed when it is left
\* normally and rolled back when it is left by an exception
TxOutcome(raised, before, written) == IF raised THEN before ELSE written

\* _add_timeline_event: one row of incident_timeline
TimelineEvent(event_type, actor, detail) ==
    [event_type |-> event_type, actor |-> actor, detail |-> detail]

\* the rows as inserted: created_at is NOW(), the time the inserting transaction began
Stamp(events, t) ==
    [i \in 1..Len(events) |-> events[i] @@ [created_at |-> t]]

RECURSIVE SumLen(_, _)
SumLen(f, S) ==
    IF S = {} THEN 0
    ELSE LET i == CHOOSE x \in S : TRUE IN Len(f[i]) + SumLen(f, S \ {i})

\* rows of incident_timeline
TimelineRows == SumLen(timeline, DOMAIN timeline)

Idle == [pc |-> "idle"]

---------------------------------------------------------------------------
\* incident-management: the incident row and the state machine

\* a row inserted already counting the alert that caused it
IncidentRow_countsCreation(service, severity, assigned_to, t) ==
    [service |-> service, severity |-> severity, status |-> "open",
     assigned_to |-> assigned_to, alert_count |-> 1, created_at |-> t,
     acknowledged_at |-> NoTime, resolved_at |-> NoTime,
     mtta_seconds |-> NoTime, mttr_seconds |-> NoTime]

IncidentRow(service, severity, assigned_to, t) ==
    [service |-> service, severity |-> severity, status |-> "open",
     assigned_to |-> assigned_to, alert_count |-> 0, created_at |-> t,
     acknowledged_at |-> NoTime, resolved_at |-> NoTime,
     mtta_seconds |-> NoTime, mttr_seconds |-> NoTime]

\* "if body.assigned_to is not None"
Reassigns_whenGiven(current, assigned_to) ==
    assigned_to # None

\* "if body.assigned_to is not None and body.assigned_to != current[...]"
Reassigns(current, assigned_to) ==
    assigned_to # None /\ assigned_to # current.assigned_to

\* a status block entered whenever a status is given
ChangesStatus_whenGiven(current, status) ==
    status # None

\* "if body.status and body.status != current['status']"
ChangesStatus(current, status) ==
    status # None /\ status # current.status

\* a check that only refuses to leave the terminal state
IllegalTransition_terminalOnly(current, status) ==
    status # None /\ status # current.status /\ ALLOWED_TRANSITIONS[current.status] = {}

\* "if new_status not in allowed: raise"
IllegalTransition(current, status) ==
    ChangesStatus(current, status) /\ status \notin ALLOWED_TRANSITIONS[current.status]

\* MTTA stamped on every entry into acknowledged or in_progress
AckUpdates_everyTime(current, status, t) ==
    IF status \in {"acknowledged", "in_progress"}
    THEN [acknowledged_at |-> t, mtta_seconds |-> t - current.created_at]
    ELSE <<>>

\* MTTA: first time entering acknowledged or in_progress
AckUpdates(current, status, t) ==
    IF status \in {"acknowledged", "in_progress"} /\ current.acknowledged_at = NoTime
    THEN [acknowledged_at |-> t, mtta_seconds |-> t - current.created_at]
    ELSE <<>>

\* MTTR on resolve without the auto-acknowledge
ResolveUpdates_noAutoAck(current, status, t) ==
    IF status = "resolved" /\ current.resolved_at = NoTime
    THEN [resolved_at |-> t, mttr_seconds |-> t - current.created_at]
    ELSE <<>>

\* MTTR on resolve, with MTTA = MTTR when the incident was never acknowledged
ResolveUpdates(current, status, t) ==
    IF status = "resolved" /\ current.resolved_at = NoTime
    THEN LET mttr == t - current.created_at
             res  == [resolved_at |-> t, mttr_seconds |-> mttr]
         IN IF current.acknowledged_at = NoTime
                /\ "acknowledged_at" \notin DOMAIN AckUpdates(current, status, t)
            THEN res @@ [acknowledged_at |-> t, mtta_seconds |-> mttr]
            ELSE res
    ELSE <<>>

\* the column updates update_incident stages from the row it read
StagedUpdates(current, status, assigned_to, t) ==
    (IF Reassigns(current, assigned_to) THEN [assigned_to |-> assigned_to] ELSE <<>>)
    @@ (IF ChangesStatus(current, status)
        THEN [status |-> status] @@ AckUpdates(current, status, t)
                                 @@ ResolveUpdates(current, status, t)
        ELSE <<>>)

\* author = body.assigned_to or current.get("assigned_to") or "system"
NoteAuthor(current, assigned_to) ==
    IF Truthy(assigned_to) THEN assigned_to
    ELSE IF Truthy(current.assigned_to) THEN current.assigned_to
    ELSE "system"

AssignedEvents(current, assigned_to) ==
    IF Reassigns(current, assigned_to)
    THEN << TimelineEvent("assigned", "system",
                          [previous |-> current.assigned_to, new |-> assigned_to]) >>
    ELSE << >>

StatusEvents(current, status) ==
    IF ChangesStatus(current, status)
    THEN << TimelineEvent(status, "system", [from |-> current.status, to |-> status]) >>
    ELSE << >>

NoteEvents(current, note, assigned_to, note_id) ==
    IF Truthy(note)
    THEN << TimelineEvent("note_added", NoteAuthor(current, assigned_to),
                          [note_id |-> note_id]) >>
    ELSE << >>

NoteRows(current, id, note, assigned_to, note_id) ==
    IF Truthy(note)
    THEN note_id :> [incident_id |-> id, author |-> NoteAuthor(current, assigned_to),
                     content |-> note]
    ELSE << >>

---------------------------------------------------------------------------
\* the members of a team's schedule, in the order of the schedule
SeedMembers(team) ==
    IF team = "platform"
    THEN << [name |-> "alice", role |-> "primary"], [name |-> "bob", role |-> "primary"] >>
    ELSE << [name |-> "carol", role |-> "primary"] >>

\* the teams that have a schedule after start-up
Teams == {"platform", "backend"}

\* a schedule as create_schedule stores it
ScheduleRecord(team) == [team |-> team, rotation_type |-> "daily", members |-> SeedMembers(team)]

\* the on-call service after start-up: the seeded schedules, nothing else
OnCallSeeded ==
    /\ schedules = [team \in Teams |-> ScheduleRecord(team)]
    /\ overrides = <<>>
    /\ history = <<>>
    /\ last_known_oncall = <<>>

Init ==
    /\ incidents = <<>>
    /\ timeline = <<>>
    /\ notes = <<>>
    /\ alerts = <<>>
    /\ log = <<>>
    /\ linked = <<>>
    /\ now = 0
    /\ resp = [op |-> "none", kind |-> "none"]
    /\ calls = [w \in Workers |-> Idle]
    /\ hits = <<>>
    /\ OnCallSeeded

\* the clock advances by d
Tick(d) ==
    /\ now < MaxTime
    /\ now' = now + d
    /\ UNCHANGED <<incidents, timeline, notes, alerts, log, linked, resp, calls, hits, oncall_vars>>

\* the assignee of a new incident: the request's, else whoever is on call
Assignee(assigned_to, oncall) ==
    IF ~Truthy(assigned_to) THEN (IF Truthy(oncall) THEN oncall ELSE assigned_to)
    ELSE assigned_to

\* an assigned event whenever an assignee was given, empty or not
CreatedEvents_ifGiven(severity, assignee) ==
    << TimelineEvent("created", "system", [severity |-> severity, assigned_to |-> assignee]) >>
    \o (IF assignee # None
        THEN << TimelineEvent("assigned", "system", [assigned_to |-> assignee]) >>
        ELSE << >>)

\* the timeline events written with a new incident
CreatedEvents(severity, assignee) ==
    << TimelineEvent("created", "system", [severity |-> severity, assigned_to |-> assignee]) >>
    \o (IF Truthy(assignee)
        THEN << TimelineEvent("assigned", "system", [assigned_to |-> assignee]) >>
        ELSE << >>)

\* POST /api/v1/incidents.  oncall is the name the on-call lookup returns (None when
\* the on-call service is unreachable or has nobody), db_ok whether the transaction
\* commits.
create_incident(service, severity, assigned_to, oncall, db_ok) ==
    LET id == NewId(incidents)
        assignee == Assignee(assigned_to, oncall)
        events == CreatedEvents(severity, assignee)
    IN /\ Cardinality(DOMAIN incidents) < MaxIncidents
       /\ TimelineRows + Len(events) <= MaxRows
       /\ incidents' = TxOutcome(~db_ok, incidents,
                                 incidents @@ (id :> IncidentRow(service, severity, assignee, now)))
       /\ timeline' = TxOutcome(~db_ok, timeline, timeline @@ (id :> Stamp(events, now)))
       /\ linked' = TxOutcome(~db_ok, linked, linked @@ (id :> 0))
       /\ resp' = [op |-> "create_incident", id |-> id,
                   kind |-> IF db_ok THEN "created" ELSE "db_error"]
       /\ UNCHANGED <<notes, alerts, log, now, calls, hits, oncall_vars>>

\* the request of a PATCH /api/v1/incidents/{id} and what it was answered
UpdateResponse(id, status, note, assigned_to, was, kind) ==
    [op |-> "update_incident", id |-> id, status |-> status, note |-> note,
     assigned_to |-> assigned_to, was |-> was, kind |-> kind]

\* PATCH /api/v1/incidents/{id} of main.py: one transaction around read, checks and writes
update_incident(id, status, note, assigned_to) ==
    /\ IF id \notin DOMAIN incidents
       THEN /\ resp' = UpdateResponse(id, status, note, assigned_to, None, "not_found")
            /\ UNCHANGED <<incidents, timeline, notes, hits, oncall_vars>>
       ELSE LET current == incidents[id]
                raised == IllegalTransition(current, status)
                note_id == NewId(notes)
                \* the timeline rows inserted before the block is left
                events == AssignedEvents(current, assigned_to)
                          \o (IF raised THEN << >>
                              ELSE StatusEvents(current, status)
                                   \o NoteEvents(current, note, assigned_to, note_id))
            IN /\ raised \/ TimelineRows + Len(events) <= MaxRows
               /\ incidents' = IF raised THEN incidents
                               ELSE [incidents EXCEPT ![id] =
                                       ApplyUpdates(@, StagedUpdates(current, status, assigned_to, now))]
               /\ timeline' = TxOutcome(raised, timeline,
                                        [timeline EXCEPT ![id] = @ \o Stamp(events, now)])
               /\ notes' = IF raised THEN notes
                           ELSE notes @@ NoteRows(current, id, note, assigned_to, note_id)
               /\ resp' = UpdateResponse(id, status, note, assigned_to, current.status,
                                         IF raised THEN "illegal_transition" ELSE "ok")
    /\ UNCHANGED <<alerts, log, linked, now, calls, hits, oncall_vars>>

\* IncidentService.update_incident of app/: the service reads the row and stages the
\* changes, IncidentRepository.update_incident writes them in one transaction.  The
\* note's parameters are staged but no statement inserts the note row.
IncidentService_update_incident(id, status, note, assigned_to) ==
    /\ IF id \notin DOMAIN incidents
       THEN /\ resp' = UpdateResponse(id, status, note, assigned_to, None, "not_found")
            /\ UNCHANGED <<incidents, timeline, hits, oncall_vars>>
       ELSE LET current == incidents[id]
                raised == IllegalTransition(current, status)
                timeline_events == AssignedEvents(current, assigned_to)
                                   \o StatusEvents(current, status)
                                   \o NoteEvents(current, note, assigned_to, NewId(notes))
            IN /\ raised \/ TimelineRows + Len(timeline_events) <= MaxRows
               /\ incidents' = IF raised THEN incidents
                               ELSE [incidents EXCEPT ![id] =
                                       ApplyUpdates(@, StagedUpdates(current, status, assigned_to, now))]
               /\ timeline' = IF raised THEN timeline
                              ELSE [timeline EXCEPT ![id] = @ \o Stamp(timeline_events, now)]
               /\ resp' = UpdateResponse(id, status, note, assigned_to, current.status,
                                         IF raised THEN "illegal_transition" ELSE "ok")
    /\ UNCHANGED <<notes, alerts, log, linked, now, calls, hits, oncall_vars>>

\* SET alert_count = 1
IncrementAlertCount_set(row) == [row EXCEPT !.alert_count = 1]

\* alert_count = alert_count + 1
IncrementAlertCount(row) == [row EXCEPT !.alert_count = @ + 1]

CorrelatedEvent(alert_id, fingerprint) ==
    TimelineEvent("alert_correlated", "alert-ingestion",
                  [alert_id |-> alert_id, fingerprint |-> fingerprint])

\* link-alert without the SELECT 1: the UPDATE touches no row of a missing incident,
\* the event is inserted all the same
link_alert_to_incident_unchecked(id, alert_id, fingerprint) ==
    /\ TimelineRows < MaxRows
    /\ incidents' = IF id \in DOMAIN incidents
                    THEN [incidents EXCEPT ![id] = IncrementAlertCount(@)]
                    ELSE incidents
    /\ timeline' = IF id \in DOMAIN timeline
                   THEN [timeline EXCEPT ![id] = @ \o Stamp(<< CorrelatedEvent(alert_id, fingerprint) >>, now)]
                   ELSE timeline @@ (id :> Stamp(<< CorrelatedEvent(alert_id, fingerprint) >>, now))
    /\ linked' = IF id \in DOMAIN linked THEN [linked EXCEPT ![id] = @ + 1] ELSE linked
    /\ resp' = [op |-> "link_alert", id |-> id, kind |-> "linked"]
    /\ UNCHANGED <<notes, alerts, log, now, calls, hits, oncall_vars>>

\* POST /api/v1/incidents/{id}/link-alert
link_alert_to_incident(id, alert_id, fingerprint) ==
    /\ IF id \notin DOMAIN incidents
       THEN /\ resp' = [op |-> "link_alert", id |-> id, kind |-> "not_found"]
            /\ UNCHANGED <<incidents, timeline, linked, hits, oncall_vars>>
       ELSE /\ TimelineRows < MaxRows
            /\ incidents' = [incidents EXCEPT ![id] = IncrementAlertCount(@)]
            /\ timeline' = [timeline EXCEPT ![id] = @ \o Stamp(<< CorrelatedEvent(alert_id, fingerprint) >>, now)]
            /\ linked' = [linked EXCEPT ![id] = @ + 1]
            /\ resp' = [op |-> "link_alert", id |-> id, kind |-> "linked"]
    /\ UNCHANGED <<notes, alerts, log, now, calls, hits, oncall_vars>>

---------------------------------------------------------------------------
\* The incident API, one request after another

AllRequests == (VALID_STATUSES \cup {None}) \X {None, "note"} \X {None, "bob"}

\* the requests tried against incident id: every request against one that exists
Requests(id) ==
    IF id \in DOMAIN incidents THEN AllRequests ELSE {<<"acknowledged", "note", "bob">>}

Ids == DOMAIN incidents \cup {NewId(incidents)}

Next ==
    \/ Tick(1)
    \/ \E a \in {None, "alice"}, oc \in {None, "alice"}, ok \in BOOLEAN :
          create_incident("api", "high", a, oc, ok)
    \/ \E id \in Ids : \E r \in Requests(id) :
          update_incident(id, r[1], r[2], r[3])
    \/ \E id \in Ids : \E r \in {q \in Requests(id) : q[2] # None} :
          IncidentService_update_incident(id, r[1], r[2], r[3])
    \/ \E id \in Ids :
          link_alert_to_incident(id, 1, "fp")

Spec == Init /\ [][Next]_vars

---------------------------------------------------------------------------
\* The incident API served by concurrent workers.  Every handler runs its statements
\* in one transaction at READ COMMITTED (the engine sets no isolation level and no
\* statement takes a lock before its UPDATE): a SELECT sees what is committed when it
\* runs, and an UPDATE ... WHERE id = :id is applied to the row as last committed,
\* waiting for a transaction that holds the row.  The UPDATE and the commit that
\* follows it are therefore one step; the SELECT before them is another.

\* update_incident up to the end of its checks: the row is read, the changes are staged
update_incident_select(w, id, status, note, assigned_to) ==
    /\ calls[w] = Idle
    /\ TimelineRows < MaxRows
    /\ IF id \notin DOMAIN incidents
       THEN /\ resp' = UpdateResponse(id, status, note, assigned_to, None, "not_found")
            /\ UNCHANGED <<calls, hits, oncall_vars>>
       ELSE LET current == incidents[id]
            IN IF IllegalTransition(current, status)
               THEN /\ resp' = UpdateResponse(id, status, note, assigned_to,
                                              current.status, "illegal_transition")
                    /\ UNCHANGED <<calls, hits, oncall_vars>>
               ELSE /\ calls' = [calls EXCEPT ![w] =
                          [pc |-> "update_incident", id |-> id,
                           updates |-> StagedUpdates(current, status, assigned_to, now),
                           events |-> Stamp(AssignedEvents(current, assigned_to)
                                            \o StatusEvents(current, status)
                                            \o NoteEvents(current, note, assigned_to, NewId(notes)),
                                            now),
                           note_rows |-> NoteRows(current, id, note, assigned_to, NewId(notes)),
                           response |-> UpdateResponse(id, status, note, assigned_to,
                                                       current.status, "ok")]]
                    /\ UNCHANGED <<resp, hits, oncall_vars>>
    /\ UNCHANGED <<incidents, timeline, notes, alerts, log, linked, now, hits, oncall_vars>>

\* update_incident from its UPDATE to the commit
update_incident_commit(w) ==
    /\ calls[w].pc = "update_incident"
    /\ LET c == calls[w]
       IN /\ incidents' = [incidents EXCEPT ![c.id] = ApplyUpdates(@, c.updates)]
          /\ timeline' = [timeline EXCEPT ![c.id] = @ \o c.events]
          /\ notes' = notes @@ c.note_rows
          /\ resp' = c.response
    /\ calls' = [calls EXCEPT ![w] = Idle]
    /\ UNCHANGED <<alerts, log, linked, now, hits, oncall_vars>>

\* link_alert_to_incident up to its SELECT 1
link_alert_select(w, id, alert_id, fingerprint) ==
    /\ calls[w] = Idle
    /\ TimelineRows < MaxRows
    /\ IF id \notin DOMAIN incidents
       THEN /\ resp' = [op |-> "link_alert", id |-> id, kind |-> "not_found"]
            /\ UNCHANGED <<calls, hits, oncall_vars>>
       ELSE /\ calls' = [calls EXCEPT ![w] =
                  [pc |-> "link_alert", id |-> id,
                   events |-> Stamp(<< CorrelatedEvent(alert_id, fingerprint) >>, now)]]
            /\ UNCHANGED <<resp, hits, oncall_vars>>
    /\ UNCHANGED <<incidents, timeline, notes, alerts, log, linked, now, hits, oncall_vars>>

\* link_alert_to_incident from its UPDATE to the commit
link_alert_commit(w) ==
    /\ calls[w].pc = "link_alert"
    /\ LET c == calls[w]
       IN /\ incidents' = [incidents EXCEPT ![c.id] = IncrementAlertCount(@)]
          /\ timeline' = [timeline EXCEPT ![c.id] = @ \o c.events]
          /\ linked' = [linked EXCEPT ![c.id] = @ + 1]
          /\ resp' = [op |-> "link_alert", id |-> c.id, kind |-> "linked"]
    /\ calls' = [calls EXCEPT ![w] = Idle]
    /\ UNCHANGED <<notes, alerts, log, now, hits, oncall_vars>>

NextConc ==
    \/ Tick(1)
    \/ \E oc \in {None, "alice"} : create_incident("api", "high", None, oc, TRUE)
    \/ \E w \in Workers, id \in Ids, status \in VALID_STATUSES :
          update_incident_select(w, id, status, None, None)
    \/ \E w \in Workers : update_incident_commit(w)
    \/ \E w \in Workers, id \in Ids : link_alert_select(w, id, 1, "fp")
    \/ \E w \in Workers : link_alert_commit(w)

SpecConc == Init /\ [][NextConc]_vars

---------------------------------------------------------------------------
\* Alert ingestion.  POST /api/v1/alerts is served by create_alert (alert-ingestion
\* main.py), which reaches the incident store only through the incident API, and by
\* AlertService.process_alert (alert-ingestion app/), which reads and writes the
\* incident tables inside its own transaction.  Requests are served one after another.

\* what the incident store holds
Store == [incidents |-> incidents, timeline |-> timeline, linked |-> linked]

\* the store after an incident and its first events are inserted
InsertIncident(S, service, severity, assignee, events, t) ==
    LET id == NewId(S.incidents)
    IN [incidents |-> S.incidents @@ (id :> IncidentRow(service, severity, assignee, t)),
        timeline |-> S.timeline @@ (id :> Stamp(events, t)),
        linked |-> S.linked @@ (id :> 0)]

\* str.lower() on the names used here
Lower(s) ==
    CASE s = "API" -> "api"
      [] s = "HIGH" -> "high"
      [] OTHER -> s

\* the correlation query with >= in place of >
OpenIncidentQuery_inclusive(service, severity, window_minutes) ==
    LET matching == {id \in DOMAIN incidents :
                        /\ incidents[id].service = service
                        /\ incidents[id].severity = severity
                        /\ incidents[id].status # "resolved"
                        /\ incidents[id].created_at >= now - window_minutes}
    IN IF matching = {} THEN NoId
       ELSE CHOOSE id \in matching :
                \A other \in matching :
                    \/ incidents[other].created_at < incidents[id].created_at
                    \/ incidents[other].created_at = incidents[id].created_at /\ other <= id

\* the incident the correlation query returns: not resolved, created inside the window,
\* the most recent one; NoId when no row matches.  Of two rows created at the same
\* reading of the clock the one inserted later (the higher id) is the more recent.
OpenIncidentQuery(service, severity, window_minutes) ==
    LET matching == {id \in DOMAIN incidents :
                        /\ incidents[id].service = service
                        /\ incidents[id].severity = severity
                        /\ incidents[id].status # "resolved"
                        /\ incidents[id].created_at > now - window_minutes}
    IN IF matching = {} THEN NoId
       ELSE CHOOSE id \in matching :
                \A other \in matching :
                    \/ incidents[other].created_at < incidents[id].created_at
                    \/ incidents[other].created_at = incidents[id].created_at /\ other <= id

\* a lookup that never reports a match
find_open_incident_blind(service, severity, window_minutes) ==
    NoId
\* GET /api/v1/incidents/find-open: the query, run with the lowercased parameters
find_open_incident(service, severity, window_minutes) ==
    OpenIncidentQuery(Lower(service), Lower(severity), window_minutes)

\* the same query, run by alert ingestion itself with the parameters as they are
find_existing_incident(service, severity, window_minutes) ==
    OpenIncidentQuery(service, severity, window_minutes)

\* the store after POST /api/v1/incidents/{id}/link-alert
LinkAlert(S, id, alert_id, fingerprint) ==
    [incidents |-> [S.incidents EXCEPT ![id] = IncrementAlertCount(@)],
     timeline |-> [S.timeline EXCEPT ![id] = @ \o Stamp(<< CorrelatedEvent(alert_id, fingerprint) >>, now)],
     linked |-> [S.linked EXCEPT ![id] = @ + 1]]

\* a create refused while the pair has a non-resolved incident inside the window
CreateIncidentRemote_unique(S, service, severity, oncall, t) ==
    IF \E id \in DOMAIN S.incidents :
          /\ S.incidents[id].service = service /\ S.incidents[id].severity = severity
          /\ S.incidents[id].status # "resolved"
          /\ S.incidents[id].created_at > t - CORRELATION_WINDOW_MINUTES
    THEN S
    ELSE InsertIncident(S, service, severity, Assignee(None, oncall),
                        CreatedEvents(severity, Assignee(None, oncall)), t)

\* the store after the incident API served a create for an alert; nobody is named in
\* the request, so the assignee is whoever is on call
CreateIncidentRemote(S, service, severity, oncall, t) ==
    InsertIncident(S, service, severity, Assignee(None, oncall),
                   CreatedEvents(severity, Assignee(None, oncall)), t)

\* outcomes of a request to the incident API: served and answered, not served
\* (unreachable, timed out before it ran, or answered with an error), or served with
\* the answer lost to the caller's timeout
Outcomes == {"ok", "unreachable", "lost"}

Served(outcome) == outcome \in {"ok", "lost"}

\* the id the caller learns from a create
CreatedId(S, outcome) == IF outcome = "ok" THEN NewId(S.incidents) ELSE NoId

AlertRow(service, severity, fingerprint, incident_id, t) ==
    [service |-> service, severity |-> severity, fingerprint |-> fingerprint,
     incident_id |-> incident_id, created_at |-> t]

\* an insert that also moves the stored alerts of the same service and severity to
\* the new alert's incident
store_alert_relinking(A, alert_id, row) ==
    [a \in DOMAIN A |->
        IF A[a].service = row.service /\ A[a].severity = row.severity
        THEN [A[a] EXCEPT !.incident_id = row.incident_id] ELSE A[a]]
    @@ (alert_id :> row)

\* INSERT INTO alerts: the table A with the new row; id is the primary key
store_alert(A, alert_id, row) ==
    A @@ (alert_id :> row)

\* what log keeps of an answer
Logged(answer) ==
    [service |-> answer.service, severity |-> answer.severity, kind |-> answer.kind,
     action |-> answer.action, incident_id |-> answer.incident_id, at |-> answer.at]

\* the request of a POST /api/v1/alerts, what became of its requests to the incident
\* API, and what it was answered
AlertResponse(handler, service, severity, find, create, link, kind, action, incident_id, alert_id, notified, notify) ==
    [op |-> "process_alert", handler |-> handler, service |-> service, severity |-> severity,
     find |-> find, create |-> create, link |-> link,
     kind |-> kind, action |-> action, incident_id |-> incident_id, alert_id |-> alert_id,
     notified |-> notified, notify |-> notify, at |-> now]

\* the answer when a request to the incident API fails is an error
AnswerKind_propagates(find, create, link, store_ok) ==
    IF store_ok /\ "unreachable" \notin {find, create, link} THEN "accepted" ELSE "db_error"

\* what a POST /api/v1/alerts answers: every failure of a request to the incident API
\* is caught and logged; only the failure of the alert's own INSERT is raised
AnswerKind(find, create, link, store_ok) ==
    IF store_ok THEN "accepted" ELSE "db_error"

\* the notification request is made for an alert that joined an existing incident,
\* after the alert is stored; its failure is caught and logged
Notified(kind, action, incident_id, notify) ==
    kind = "accepted" /\ action = "existing_incident" /\ HasId(incident_id) /\ Served(notify)

\* a request that is sent whatever the action
NotifyRequest_always(kind, action, incident_id, notify) ==
    IF kind = "accepted" /\ HasId(incident_id) THEN notify ELSE "none"

\* the request to the notification service and what became of it: "none" when the
\* handler sends none ("if action == 'existing_incident' and incident_id", reached
\* only once the alert is stored)
NotifyRequest(kind, action, incident_id, notify) ==
    IF kind = "accepted" /\ action = "existing_incident" /\ HasId(incident_id)
    THEN notify ELSE "none"

\* create_alert of alert-ingestion main.py.  existing is what find-open answers when
\* it is served; find, create and link are the outcomes of the three requests to the
\* incident API, store_ok whether the INSERT INTO alerts commits, notify the outcome
\* of the request to the notification service.
create_alert_with(fingerprint, service, severity, existing, find, create, oncall, link, store_ok, notify) ==
    LET alert_id == Len(log) + 1
        found == IF find = "ok" THEN existing ELSE NoId
        created == IF Served(create)
                   THEN CreateIncidentRemote(Store, service, severity, oncall, now)
                   ELSE Store
        incident_id == IF HasId(found) THEN found ELSE CreatedId(Store, create)
        action == IF HasId(found) THEN "existing_incident" ELSE "new_incident"
        correlated == IF HasId(found) THEN Store ELSE created
        S == IF HasId(incident_id) /\ Served(link)
             THEN LinkAlert(correlated, incident_id, alert_id, fingerprint)
             ELSE correlated
        made == [find |-> find, create |-> IF HasId(found) THEN "none" ELSE create,
                 link |-> IF HasId(incident_id) THEN link ELSE "none"]
        kind == AnswerKind(made.find, made.create, made.link, store_ok)
        answer == AlertResponse("create_alert", service, severity, made.find, made.create,
                                made.link, kind, action, incident_id, alert_id,
                                Notified(kind, action, incident_id, notify),
                                NotifyRequest(kind, action, incident_id, notify))
    IN [store |-> S,
        alerts |-> IF store_ok
                   THEN store_alert(alerts, alert_id,
                                    AlertRow(service, severity, fingerprint, incident_id, now))
                   ELSE alerts,
        answer |-> answer]

\* the same for an alert whose message is left out of account: its fingerprint is fp
create_alert_result(service, severity, existing, find, create, oncall, link, store_ok, notify) ==
    create_alert_with("fp", service, severity, existing, find, create, oncall, link,
                      store_ok, notify)

\* POST /api/v1/alerts served by create_alert
create_alert(service, severity, existing, find, create, oncall, link, store_ok, notify) ==
    LET result == create_alert_result(service, severity, existing, find, create, oncall,
                                      link, store_ok, notify)
    IN /\ Len(log) < MaxAlerts
       /\ incidents' = result.store.incidents
       /\ timeline' = result.store.timeline
       /\ linked' = result.store.linked
       /\ alerts' = result.alerts
       /\ log' = Append(log, Logged(result.answer))
       /\ resp' = result.answer
       /\ UNCHANGED <<notes, now, calls, hits, oncall_vars>>

\* AlertRepository.create_incident_locally: the fallback incident
create_incident_locally(S, service, severity, t) ==
    InsertIncident(S, service, severity, None,
                   << TimelineEvent("created", "alert-ingestion", [fallback |-> TRUE]) >>, t)

\* AlertRepository.increment_alert_count
increment_alert_count(S, incident_id) ==
    [S EXCEPT !.incidents[incident_id] = IncrementAlertCount(@),
              !.linked[incident_id] = @ + 1]

\* AlertRepository.add_correlation_timeline
add_correlation_timeline(S, incident_id, alert_id, fingerprint) ==
    [S EXCEPT !.timeline[incident_id] = @ \o Stamp(<< CorrelatedEvent(alert_id, fingerprint) >>, now)]

\* AlertService.process_alert.  existing is what the correlation query returns, create
\* the outcome of the request to the incident API, db_ok whether every statement of the
\* local transaction and its commit succeed.
process_alert_with(fingerprint, service, severity, existing, create, oncall, db_ok, notify) ==
    LET alert_id == Len(log) + 1
        remote == IF ~HasId(existing) /\ Served(create)
                  THEN CreateIncidentRemote(Store, service, severity, oncall, now)
                  ELSE Store
        remote_id == CreatedId(Store, create)
        incident_id == IF HasId(existing) THEN existing
                       ELSE IF HasId(remote_id) THEN remote_id
                       ELSE NewId(remote.incidents)
        action == IF HasId(existing) THEN "existing_incident" ELSE "new_incident"
        resolved == IF HasId(existing) \/ HasId(remote_id) THEN remote
                    ELSE create_incident_locally(remote, service, severity, now)
        counted == increment_alert_count(resolved, incident_id)
        written == IF HasId(existing)
                   THEN add_correlation_timeline(counted, incident_id, alert_id, fingerprint)
                   ELSE counted
        S == TxOutcome(~db_ok, remote, written)
        made == IF HasId(existing) THEN "none" ELSE create
        kind == AnswerKind("ok", made, "none", db_ok)
        answer == AlertResponse("process_alert", service, severity, "ok", made, "none",
                                kind, action, incident_id, alert_id,
                                Notified(kind, action, incident_id, notify),
                                NotifyRequest(kind, action, incident_id, notify))
    IN [store |-> S,
        alerts |-> TxOutcome(~db_ok, alerts,
                      store_alert(alerts, alert_id,
                                  AlertRow(service, severity, fingerprint, incident_id, now))),
        answer |-> answer]

\* the same for an alert whose message is left out of account
process_alert_result(service, severity, existing, create, oncall, db_ok, notify) ==
    process_alert_with("fp", service, severity, existing, create, oncall, db_ok, notify)

\* POST /api/v1/alerts served by AlertService.process_alert
process_alert(service, severity, existing, create, oncall, db_ok, notify) ==
    LET result == process_alert_result(service, severity, existing, create, oncall,
                                       db_ok, notify)
    IN /\ Len(log) < MaxAlerts
       /\ incidents' = result.store.incidents
       /\ timeline' = result.store.timeline
       /\ linked' = result.store.linked
       /\ alerts' = result.alerts
       /\ log' = Append(log, Logged(result.answer))
       /\ resp' = result.answer
       /\ UNCHANGED <<notes, now, calls, hits, oncall_vars>>

NextAlerts ==
    \/ Tick(CORRELATION_WINDOW_MINUTES)
    \/ \E existing \in {find_open_incident("api", "high", CORRELATION_WINDOW_MINUTES)},
          find \in {"ok", "unreachable"}, create \in Outcomes, oncall \in {None, "alice"},
          link \in {"ok", "unreachable"}, store_ok \in BOOLEAN :
          create_alert("api", "high", existing, find, create, oncall, link, store_ok, "ok")
    \/ \E existing \in {find_existing_incident("api", "high", CORRELATION_WINDOW_MINUTES)},
          create \in Outcomes, oncall \in {None, "alice"}, db_ok \in BOOLEAN :
          process_alert("api", "high", existing, create, oncall, db_ok, "ok")
    \/ \E id \in DOMAIN incidents : update_incident(id, "resolved", None, None)

SpecAlerts == Init /\ [][NextAlerts]_vars

\* Alert ingestion with every collaborator failing or not, the notification service
\* included; the on-call service always names somebody
NextOutage ==
    \/ \E existing \in {find_open_incident("api", "high", CORRELATION_WINDOW_MINUTES)},
          find \in {"ok", "unreachable"}, create \in Outcomes, link \in {"ok", "unreachable"},
          store_ok \in BOOLEAN, notify \in {"ok", "unreachable"} :
          create_alert("api", "high", existing, find, create, "alice", link, store_ok, notify)
    \/ \E existing \in {find_existing_incident("api", "high", CORRELATION_WINDOW_MINUTES)},
          create \in Outcomes, db_ok \in BOOLEAN, notify \in {"ok", "unreachable"} :
          process_alert("api", "high", existing, create, "alice", db_ok, notify)

SpecOutage == Init /\ [][NextOutage]_vars

---------------------------------------------------------------------------
\* Alert ingestion served by concurrent workers.  A request to the incident API is
\* one transaction there, so it is one step; what a worker does between two requests
\* touches only its own locals.  The local transaction of process_alert holds the
\* rows it updates until it commits, so its statements are one step at the commit.

\* alert requests begun so far
Started == Len(log) + Cardinality({w \in Workers : calls[w] # Idle})

\* the locals of a POST /api/v1/alerts in flight
AlertCall(pc, handler, service, severity, alert_id, find, create, link, incident_id, action) ==
    [pc |-> pc, handler |-> handler, service |-> service, severity |-> severity,
     alert_id |-> alert_id, find |-> find, create |-> create, link |-> link,
     incident_id |-> incident_id, action |-> action]

\* what a finished call answers
CallAnswer(c, store_ok, notify) ==
    AlertResponse(c.handler, c.service, c.severity, c.find, c.create, c.link,
                  AnswerKind(c.find, c.create, c.link, store_ok), c.action, c.incident_id,
                  c.alert_id,
                  Notified(AnswerKind(c.find, c.create, c.link, store_ok), c.action,
                           c.incident_id, notify),
                  NotifyRequest(AnswerKind(c.find, c.create, c.link, store_ok), c.action,
                                c.incident_id, notify))

\* create_alert: the find-open request
create_alert_find(w, service, severity, find) ==
    LET existing == IF find = "ok"
                    THEN find_open_incident(service, severity, CORRELATION_WINDOW_MINUTES)
                    ELSE NoId
    IN /\ calls[w] = Idle
       /\ Started < MaxAlerts
       /\ calls' = [calls EXCEPT ![w] =
             AlertCall(IF HasId(existing) THEN "link" ELSE "create", "create_alert",
                       service, severity, Started + 1, find, "none", "none", existing,
                       IF HasId(existing) THEN "existing_incident" ELSE "new_incident")]
       /\ UNCHANGED <<incidents, timeline, notes, alerts, log, linked, now, resp, hits, oncall_vars>>

\* create_alert: the create request
create_alert_create(w, create, oncall) ==
    LET c == calls[w]
        S == IF Served(create)
             THEN CreateIncidentRemote(Store, c.service, c.severity, oncall, now)
             ELSE Store
        incident_id == CreatedId(Store, create)
    IN /\ c.pc = "create" /\ c.handler = "create_alert"
       /\ incidents' = S.incidents
       /\ timeline' = S.timeline
       /\ linked' = S.linked
       /\ calls' = [calls EXCEPT ![w] =
             [c EXCEPT !.pc = IF HasId(incident_id) THEN "link" ELSE "store",
                       !.create = create, !.incident_id = incident_id]]
       /\ UNCHANGED <<notes, alerts, log, now, resp, hits, oncall_vars>>

\* create_alert: the link-alert request
create_alert_link(w, link) ==
    LET c == calls[w]
        S == IF Served(link) THEN LinkAlert(Store, c.incident_id, c.alert_id, "fp") ELSE Store
    IN /\ c.pc = "link" /\ c.handler = "create_alert"
       /\ incidents' = S.incidents
       /\ timeline' = S.timeline
       /\ linked' = S.linked
       /\ calls' = [calls EXCEPT ![w] = [c EXCEPT !.pc = "store", !.link = link]]
       /\ UNCHANGED <<notes, alerts, log, now, resp, hits, oncall_vars>>

\* create_alert: the INSERT INTO alerts and the answer
create_alert_store(w, store_ok, notify) ==
    LET c == calls[w]
        answer == CallAnswer(c, store_ok, notify)
    IN /\ c.pc = "store" /\ c.handler = "create_alert"
       /\ alerts' = IF store_ok
                    THEN store_alert(alerts, c.alert_id,
                            AlertRow(c.service, c.severity, "fp", c.incident_id, now))
                    ELSE alerts
       /\ log' = Append(log, Logged(answer))
       /\ resp' = answer
       /\ calls' = [calls EXCEPT ![w] = Idle]
       /\ UNCHANGED <<incidents, timeline, notes, linked, now, hits, oncall_vars>>

\* process_alert: the correlation query
process_alert_find(w, service, severity) ==
    LET existing == find_existing_incident(service, severity, CORRELATION_WINDOW_MINUTES)
    IN /\ calls[w] = Idle
       /\ Started < MaxAlerts
       /\ calls' = [calls EXCEPT ![w] =
             AlertCall(IF HasId(existing) THEN "commit" ELSE "create", "process_alert",
                       service, severity, Started + 1, "ok", "none", "none", existing,
                       IF HasId(existing) THEN "existing_incident" ELSE "new_incident")]
       /\ UNCHANGED <<incidents, timeline, notes, alerts, log, linked, now, resp, hits, oncall_vars>>

\* process_alert: the create request
process_alert_create(w, create, oncall) ==
    LET c == calls[w]
        S == IF Served(create)
             THEN CreateIncidentRemote(Store, c.service, c.severity, oncall, now)
             ELSE Store
    IN /\ c.pc = "create" /\ c.handler = "process_alert"
       /\ incidents' = S.incidents
       /\ timeline' = S.timeline
       /\ linked' = S.linked
       /\ calls' = [calls EXCEPT ![w] =
             [c EXCEPT !.pc = "commit", !.create = create,
                       !.incident_id = CreatedId(Store, create)]]
       /\ UNCHANGED <<notes, alerts, log, now, resp, hits, oncall_vars>>

\* process_alert: the statements of the local transaction and its commit
process_alert_commit(w, db_ok, notify) ==
    LET c == calls[w]
        incident_id == IF HasId(c.incident_id) THEN c.incident_id ELSE NewId(incidents)
        resolved == IF HasId(c.incident_id) THEN Store
                    ELSE create_incident_locally(Store, c.service, c.severity, now)
        counted == increment_alert_count(resolved, incident_id)
        written == IF c.action = "existing_incident"
                   THEN add_correlation_timeline(counted, incident_id, c.alert_id, "fp")
                   ELSE counted
        S == TxOutcome(~db_ok, Store, written)
        answer == CallAnswer([c EXCEPT !.incident_id = incident_id], db_ok, notify)
    IN /\ c.pc = "commit" /\ c.handler = "process_alert"
       /\ incidents' = S.incidents
       /\ timeline' = S.timeline
       /\ linked' = S.linked
       /\ alerts' = TxOutcome(~db_ok, alerts,
                       store_alert(alerts, c.alert_id,
                           AlertRow(c.service, c.severity, "fp", incident_id, now)))
       /\ log' = Append(log, Logged(answer))
       /\ resp' = answer
       /\ calls' = [calls EXCEPT ![w] = Idle]
       /\ UNCHANGED <<notes, now, hits, oncall_vars>>

NextRace ==
    \/ \E w \in Workers, find \in {"ok", "unreachable"} : create_alert_find(w, "api", "high", find)
    \/ \E w \in Workers, create \in Outcomes : create_alert_create(w, create, "alice")
    \/ \E w \in Workers, link \in {"ok", "unreachable"} : create_alert_link(w, link)
    \/ \E w \in Workers, store_ok \in BOOLEAN : create_alert_store(w, store_ok, "ok")
    \/ \E w \in Workers : process_alert_find(w, "api", "high")
    \/ \E w \in Workers, create \in Outcomes : process_alert_create(w, create, "alice")
    \/ \E w \in Workers, db_ok \in BOOLEAN : process_alert_commit(w, db_ok, "ok")

SpecRace == Init /\ [][NextRace]_vars

---------------------------------------------------------------------------
\* The correlation query against stores that hold incidents of several services and
\* severities, created at different times

\* a GET /api/v1/incidents/find-open and its answer
find_open_request(service, severity, window_minutes) ==
    /\ resp' = [op |-> "find_open", service |-> service, severity |-> severity,
                window_minutes |-> window_minutes, at |-> now,
                incident_id |-> find_open_incident(service, severity, window_minutes)]
    /\ UNCHANGED <<incidents, timeline, notes, alerts, log, linked, now, calls, hits, oncall_vars>>

\* the (service, severity) pairs alerts arrive with
Pairs == {<<"api", "high">>, <<"api", "low">>, <<"web", "high">>}

NextFind ==
    \/ Tick(1)
    \/ Tick(CORRELATION_WINDOW_MINUTES)
    \/ \E p \in Pairs, find \in {"ok", "unreachable"} :
          create_alert(p[1], p[2], find_open_incident(p[1], p[2], CORRELATION_WINDOW_MINUTES),
                       find, "ok", None, "ok", TRUE, "ok")
    \/ \E id \in DOMAIN incidents : update_incident(id, "resolved", None, None)
    \/ \E service \in {"api", "API", "web"}, severity \in {"high", "low"},
          window_minutes \in {1, CORRELATION_WINDOW_MINUTES} :
          find_open_request(service, severity, window_minutes)

SpecFind == Init /\ [][NextFind]_vars

---------------------------------------------------------------------------
\* Properties of the state machine, for requests served one after another (Spec)

IsTransition == resp.op = "update_incident" /\ resp.kind \in {"ok", "illegal_transition"}

\* C1: a transition request for a status other than resolved against an incident
\* that is resolved is answered illegal_transition, and the incident stays resolved.
C1_ResolvedIsTerminal ==
    (IsTransition /\ resp.was = "resolved" /\ resp.status \notin {None, "resolved"})
        => /\ resp.kind = "illegal_transition"
           /\ incidents[resp.id].status = "resolved"

C1_Witness ==
    /\ IsTransition /\ resp.was = "resolved" /\ resp.status = "open"
    /\ resp.kind = "illegal_transition"

\* the transition table as the specification states it
C2_Table(s) ==
    CASE s = "open"         -> {"acknowledged", "in_progress", "resolved"}
      [] s = "acknowledged" -> {"in_progress", "resolved"}
      [] s = "in_progress"  -> {"resolved"}
      [] s = "resolved"     -> {}

C2_Rank(s) ==
    CASE s = "open" -> 0 [] s = "acknowledged" -> 1 [] s = "in_progress" -> 2
      [] s = "resolved" -> 3

C2_Answer ==
    (IsTransition /\ resp.status # None /\ resp.status # resp.was)
        => /\ resp.kind = "ok" <=> resp.status \in C2_Table(resp.was)
           /\ resp.kind = "ok" => incidents[resp.id].status = resp.status

\* C2: a request for a status t other than the current status s succeeds exactly when
\* t is an allowed target of s, and no step moves the status of an incident backward.
C2_TransitionTable ==
    [][ /\ C2_Answer'
        /\ \A id \in DOMAIN incidents :
              C2_Rank(incidents'[id].status) >= C2_Rank(incidents[id].status) ]_vars

C2_Witness ==
    /\ IsTransition /\ resp.kind = "illegal_transition"
    /\ resp.was = "in_progress" /\ resp.status = "acknowledged"

\* C3: a request answered illegal_transition changes no row of incidents,
\* incident_timeline or incident_notes.
C3_IllegalTransitionChangesNothing ==
    [][ resp'.kind = "illegal_transition" => UNCHANGED <<incidents, timeline, notes, hits, oncall_vars>> ]_vars

\* the refused request also asked for a reassignment that differs and carried a note
C3_Witness ==
    /\ IsTransition /\ resp.kind = "illegal_transition"
    /\ resp.note # None
    /\ resp.assigned_to # None /\ resp.assigned_to # incidents[resp.id].assigned_to

ResolvedFromOpen(id) ==
    \E k \in DOMAIN timeline[id] :
        /\ timeline[id][k].event_type = "resolved"
        /\ timeline[id][k].detail.from = "open"

\* C5: an incident resolved directly from open has mtta_seconds = mttr_seconds and
\* acknowledged_at = resolved_at.
C5_FastTrackMetrics ==
    \A id \in DOMAIN incidents :
        ResolvedFromOpen(id)
            => /\ incidents[id].resolved_at # NoTime
               /\ incidents[id].acknowledged_at = incidents[id].resolved_at
               /\ incidents[id].mtta_seconds = incidents[id].mttr_seconds

C5_Witness ==
    \E id \in DOMAIN incidents :
        ResolvedFromOpen(id) /\ incidents[id].mttr_seconds > 0

WriteOnce(id, at, metric) ==
    incidents[id][at] # NoTime
        => /\ incidents'[id][at] = incidents[id][at]
           /\ incidents'[id][metric] = incidents[id][metric]

\* C6: once acknowledged_at and mtta_seconds are set no step changes them, and once
\* resolved_at and mttr_seconds are set no step changes them.
C6_TimestampsWriteOnce ==
    [][ \A id \in DOMAIN incidents :
            /\ WriteOnce(id, "acknowledged_at", "mtta_seconds")
            /\ WriteOnce(id, "resolved_at", "mttr_seconds") ]_vars

\* acknowledged first and resolved later
C6_Witness ==
    \E id \in DOMAIN incidents :
        /\ incidents[id].status = "resolved"
        /\ incidents[id].acknowledged_at # NoTime
        /\ incidents[id].acknowledged_at < incidents[id].resolved_at

---------------------------------------------------------------------------
\* Properties under concurrent requests (SpecConc)

\* C4: every committed change of an incident's status is a transition the table
\* allows from the status committed before it.
C4_CommittedTransitionsLegal ==
    [][ \A id \in DOMAIN incidents :
            incidents'[id].status # incidents[id].status
                => incidents'[id].status \in C2_Table(incidents[id].status) ]_vars

\* C7: alert_count is the number of link operations on the incident that succeeded.
C7_AlertCountIsLinks ==
    \A id \in DOMAIN incidents : incidents[id].alert_count = linked[id]

\* a link has committed while another, started before that commit, is still to commit,
\* and one has committed before
C7_Witness ==
    \E id \in DOMAIN incidents, w \in Workers :
        /\ incidents[id].alert_count = 2
        /\ calls[w].pc = "link_alert" /\ calls[w].id = id
        /\ resp.op = "link_alert" /\ resp.kind = "linked"

---------------------------------------------------------------------------
\* Properties of alert ingestion (SpecAlerts)

\* the alerts stored with an incident's id
AlertsOf(id) == {a \in DOMAIN alerts : alerts[a].incident_id = id}

\* C8: between requests, every incident's alert_count is the number of stored alerts
\* that carry its id, whatever failed while an alert was processed.
C8_CountMatchesAlerts ==
    \A id \in DOMAIN incidents : incidents[id].alert_count = Cardinality(AlertsOf(id))

\* C9: an alert accepted while the incident API could not be reached for the create
\* is answered and stored with the id of an incident whose first timeline event is
\* marked as a fallback; no stored alert is without an incident id.
C9_DegradedMode ==
    /\ (resp.op = "process_alert" /\ resp.create = "unreachable" /\ resp.kind = "accepted")
          => /\ HasId(resp.incident_id)
             /\ resp.alert_id \in DOMAIN alerts
             /\ alerts[resp.alert_id].incident_id = resp.incident_id
             /\ resp.incident_id \in DOMAIN timeline
             /\ "fallback" \in DOMAIN timeline[resp.incident_id][1].detail
    /\ \A a \in DOMAIN alerts : HasId(alerts[a].incident_id)

\* C10: after n >= 2 alerts for one (service, severity) were accepted one after another
\* inside the correlation window, none matching before the first and the incident not
\* resolved, the first was answered new_incident, every later one existing_incident
\* with the first one's incident id, and that incident's alert_count is n.
C10_SequentialCorrelation ==
    LET n == Len(log)
    IN (/\ n >= 2
        /\ \A k \in 1..n : /\ log[k].kind = "accepted"
                            /\ log[k].service = log[1].service
                            /\ log[k].severity = log[1].severity
        /\ log[n].at - log[1].at < CORRELATION_WINDOW_MINUTES
        /\ \A id \in DOMAIN incidents : incidents[id].status # "resolved")
       => /\ log[1].action = "new_incident"
          /\ HasId(log[1].incident_id)
          /\ \A k \in 2..n : /\ log[k].action = "existing_incident"
                              /\ log[k].incident_id = log[1].incident_id
          /\ log[1].incident_id \in DOMAIN incidents
          /\ incidents[log[1].incident_id].alert_count = n

\* an alert request was served in this step
AlertServed == Len(log') = Len(log) + 1

\* every request the step made to the incident API was served and answered
AuthorityReachable(answer) ==
    /\ answer.find = "ok"
    /\ answer.create \in {"ok", "none"}
    /\ answer.link \in {"ok", "none"}

\* C11: an alert accepted for a (service, severity) that has no incident yet, with the
\* incident API reachable, is answered new_incident with the id of an incident that
\* did not exist before the call, and that incident's alert_count is 1 after it.
C11_FreshCorrelation ==
    [][ ( /\ AlertServed
          /\ resp'.kind = "accepted"
          /\ AuthorityReachable(resp')
          /\ \A id \in DOMAIN incidents :
                 incidents[id].service # resp'.service \/ incidents[id].severity # resp'.severity )
        => /\ resp'.action = "new_incident"
           /\ resp'.incident_id \notin DOMAIN incidents
           /\ resp'.incident_id \in DOMAIN incidents'
           /\ incidents'[resp'.incident_id].alert_count = 1 ]_vars

\* the first alert was served by create_alert with every request answered
C11_Witness ==
    /\ Len(log) = 1
    /\ resp.op = "process_alert" /\ resp.handler = "create_alert"
    /\ resp.kind = "accepted" /\ resp.create = "ok" /\ resp.link = "ok"
    /\ resp.action = "new_incident"
    /\ incidents[resp.incident_id].alert_count = 1

---------------------------------------------------------------------------
\* Properties of alert ingestion under concurrent requests (SpecRace)

\* the non-resolved incidents of a pair created inside the correlation window
OpenInWindow(service, severity) ==
    {id \in DOMAIN incidents :
        /\ incidents[id].service = service
        /\ incidents[id].severity = severity
        /\ incidents[id].status # "resolved"
        /\ incidents[id].created_at > now - CORRELATION_WINDOW_MINUTES}

\* C12: a call that observed no open incident creates one whenever its create request is
\* served, whatever the store holds by then; nothing refuses a second open incident
\* for the same (service, severity), so overlapping calls can leave two.
C12_NothingPreventsDuplicates ==
    [][ \A w \in Workers :
            (calls[w].pc = "create" /\ calls'[w].pc # "create" /\ calls'[w].create = "ok")
            => /\ calls'[w].incident_id \notin DOMAIN incidents
               /\ calls'[w].incident_id \in OpenInWindow(calls[w].service, calls[w].severity)' ]_vars

\* two calls in flight both looked up successfully, both found nothing, both created
C12_Witness ==
    /\ \A w \in Workers : /\ calls[w].pc \in {"link", "store", "commit"}
                          /\ calls[w].find = "ok" /\ calls[w].create = "ok"
                          /\ calls[w].action = "new_incident"
                          /\ calls[w].incident_id \in OpenInWindow("api", "high")
    /\ calls["w1"].incident_id # calls["w2"].incident_id
    /\ Cardinality(OpenInWindow("api", "high")) = 2

---------------------------------------------------------------------------
\* Properties of the correlation query (SpecFind)

\* the incidents a find-open for (service, severity, window) may return: not resolved,
\* created strictly later than now - window, of that service and severity
C13_Matching(service, severity, window_minutes) ==
    {id \in DOMAIN incidents :
        /\ incidents[id].service = service
        /\ incidents[id].severity = severity
        /\ incidents[id].status # "resolved"
        /\ now - incidents[id].created_at < window_minutes}

\* the answer is one of M with the greatest created_at, and none exactly when M is empty
C13_Answers(M) ==
    IF M = {} THEN resp.incident_id = NoId
    ELSE /\ resp.incident_id \in M
         /\ \A other \in M : incidents[other].created_at <= incidents[resp.incident_id].created_at

\* the store is as the last find-open saw it
C13_JustAnswered == resp.op = "find_open" /\ resp.at = now

\* C13 as stated: find_open_incident returns the most recent of the non-resolved incidents
\* created inside the window whose service and severity equal the query's, and none
\* exactly when there is no such incident.
C13_FindOpenLiteral ==
    C13_JustAnswered
        => C13_Answers(C13_Matching(resp.service, resp.severity, resp.window_minutes))

\* C13 amended: the same, with the incident's service and severity compared with the
\* query's service and severity in lowercase.
C13_FindOpen ==
    C13_JustAnswered
        => C13_Answers(C13_Matching(Lower(resp.service), Lower(resp.severity),
                                    resp.window_minutes))

\* of two open incidents of the queried pair, the one created exactly a window ago is
\* left out and the later one is returned
C13_Witness ==
    /\ C13_JustAnswered
    /\ \E old \in DOMAIN incidents :
          /\ old # resp.incident_id
          /\ incidents[old].service = resp.service
          /\ incidents[old].severity = resp.severity
          /\ incidents[old].status # "resolved"
          /\ incidents[old].created_at = now - resp.window_minutes
    /\ resp.incident_id \in DOMAIN incidents
    /\ incidents[resp.incident_id].created_at > now - resp.window_minutes

---------------------------------------------------------------------------
\* Properties of alert ingestion when collaborators fail (SpecOutage)

\* C14: whatever became of the lookup, the create, the link and the notification, an
\* alert request is answered accepted exactly when its alert row was stored, and with
\* an error otherwise.
C14_OnlyStoreFailureSurfaces ==
    resp.op = "process_alert"
        => /\ resp.kind \in {"accepted", "db_error"}
           /\ resp.kind = "accepted" <=> resp.alert_id \in DOMAIN alerts

\* an existing incident was found, the link and the notification both failed, and the
\* alert was accepted and stored
C14_Witness ==
    /\ resp.op = "process_alert" /\ resp.handler = "create_alert"
    /\ resp.action = "existing_incident" /\ resp.link = "unreachable" /\ ~resp.notified
    /\ resp.kind = "accepted"
    /\ resp.alert_id \in DOMAIN alerts

---------------------------------------------------------------------------
\* Further properties of requests served one after another (Spec)

\* C15: a link-alert or an update naming an incident that does not exist is answered
\* not_found and leaves every table as it was.
C15_NotFoundWritesNothing ==
    [][ ( /\ resp'.op \in {"link_alert", "update_incident"}
          /\ resp'.id \notin DOMAIN incidents )
        => /\ resp'.kind = "not_found"
           /\ UNCHANGED <<incidents, timeline, notes, alerts, linked, hits, oncall_vars>> ]_vars

\* a link-alert for an id that names no incident was answered, besides an incident that
\* exists
C15_Witness ==
    /\ resp.op = "link_alert" /\ resp.kind = "not_found"
    /\ resp.id \notin DOMAIN incidents
    /\ DOMAIN incidents # {}

---------------------------------------------------------------------------
\* Further properties of alert ingestion (SpecAlerts)

\* the positions of an incident's timeline that hold an event of the given type
EventsOfType(id, event_type) ==
    {i \in 1..Len(timeline[id]) : timeline[id][i].event_type = event_type}

\* C16: an incident's timeline holds as many alert_correlated events as its
\* alert_count, whether the counted alert joined the incident or caused it.
C16_CorrelatedEventsMatchCount ==
    \A id \in DOMAIN incidents :
        Cardinality(EventsOfType(id, "alert_correlated")) = incidents[id].alert_count

\* the timeline read lists e1 before e2 whenever e1 carries the earlier created_at
\* (ORDER BY created_at; rows with equal stamps come in no fixed order)
ReadsBefore(e1, e2) ==
    e1.created_at < e2.created_at

\* C17: within one incident the timeline read returns the events in the order in
\* which their operations committed: an event committed later is never listed
\* before an event committed earlier, under any interleaving
C17_ReadOrderIsCommitOrder ==
    \A id \in DOMAIN timeline :
        \A i, j \in 1..Len(timeline[id]) :
            i < j => ~ReadsBefore(timeline[id][j], timeline[id][i])

IsStatusEvent(e) ==
    e.event_type \in VALID_STATUSES

StatusChain(id) ==
    SelectSeq(timeline[id], IsStatusEvent)

\* C18: every status event is typed by the status it leads to, and the status events
\* of an incident form a chain: the first leaves open, each next one leaves the
\* status the previous one led to, and the last one leads to the incident's current
\* status (an incident without status events is open)
C18_StatusEventsFormChain ==
    \A id \in DOMAIN incidents :
        LET chain == StatusChain(id)
        IN /\ \A k \in 1..Len(chain) : chain[k].event_type = chain[k].detail.to
           /\ \A k \in 1..(Len(chain) - 1) : chain[k + 1].detail.from = chain[k].detail.to
           /\ IF chain = << >>
              THEN incidents[id].status = "open"
              ELSE /\ chain[1].detail.from = "open"
                   /\ chain[Len(chain)].detail.to = incidents[id].status

----------------------------------------------------------------------------
\* Reading an incident back

\* JSON null
Null == [null |-> TRUE]

\* "row[9].isoformat() if row[9] else None"
Isoformat(t) ==
    IF t # NoTime THEN [iso |-> t] ELSE Null

\* a conversion whose alert_count defaults to 1
row_to_dict_defaultsToOne(id, row) ==
    [id |-> id, service |-> row.service, severity |-> row.severity,
     status |-> row.status, assigned_to |-> row.assigned_to,
     alert_count |-> IF row.alert_count # 0 THEN row.alert_count ELSE 1,
     created_at |-> Isoformat(row.created_at),
     acknowledged_at |-> Isoformat(row.acknowledged_at),
     resolved_at |-> Isoformat(row.resolved_at),
     mtta_seconds |-> IF row.mtta_seconds # NoTime THEN [seconds |-> row.mtta_seconds] ELSE Null,
     mttr_seconds |-> IF row.mttr_seconds # NoTime THEN [seconds |-> row.mttr_seconds] ELSE Null]

\* _row_to_dict: "alert_count": row[6] or 0, the timestamps through isoformat, the
\* metrics as stored (NULL is None)
row_to_dict(id, row) ==
    [id |-> id, service |-> row.service, severity |-> row.severity,
     status |-> row.status, assigned_to |-> row.assigned_to,
     alert_count |-> IF row.alert_count # 0 THEN row.alert_count ELSE 0,
     created_at |-> Isoformat(row.created_at),
     acknowledged_at |-> Isoformat(row.acknowledged_at),
     resolved_at |-> Isoformat(row.resolved_at),
     mtta_seconds |-> IF row.mtta_seconds # NoTime THEN [seconds |-> row.mtta_seconds] ELSE Null,
     mttr_seconds |-> IF row.mttr_seconds # NoTime THEN [seconds |-> row.mttr_seconds] ELSE Null]

\* GET /api/v1/incidents/{id}: the incident part of the answer
get_incident(id) ==
    /\ resp' = IF id \in DOMAIN incidents
               THEN [op |-> "get_incident", id |-> id, kind |-> "ok",
                     incident |-> row_to_dict(id, incidents[id])]
               ELSE [op |-> "get_incident", id |-> id, kind |-> "not_found"]
    /\ UNCHANGED <<incidents, timeline, notes, alerts, log, linked, now, calls, hits, oncall_vars>>

\* creations with every service, severity and assignee, updates, links and reads
NextRead ==
    \/ \E p \in Pairs, a \in {None, "", "bob"}, oc \in {None, "alice"}, ok \in BOOLEAN :
          create_incident(p[1], p[2], a, oc, ok)
    \/ \E id \in DOMAIN incidents, status \in VALID_STATUSES :
          update_incident(id, status, None, None)
    \/ \E id \in DOMAIN incidents :
          link_alert_to_incident(id, 1, "fp")
    \/ \E id \in Ids :
          get_incident(id)

SpecRead == Init /\ [][NextRead]_vars

\* C19: a read that immediately follows a successful create_incident returns the new
\* incident with status open, alert_count 0 and acknowledged_at, resolved_at,
\* mtta_seconds and mttr_seconds null, whatever service, severity and assigned_to
\* the creation was given
C19_CreateThenRead ==
    [][(/\ resp.op = "create_incident" /\ resp.kind = "created"
        /\ resp'.op = "get_incident" /\ resp'.id = resp.id)
       => /\ resp'.kind = "ok"
          /\ resp'.incident.status = "open"
          /\ resp'.incident.alert_count = 0
          /\ resp'.incident.acknowledged_at = Null
          /\ resp'.incident.resolved_at = Null
          /\ resp'.incident.mtta_seconds = Null
          /\ resp'.incident.mttr_seconds = Null]_vars

C19_Witness ==
    /\ resp.op = "get_incident" /\ resp.kind = "ok"
    /\ resp.incident.status = "open"
    /\ resp.incident.assigned_to = "bob"
    /\ resp.incident.service = "web"
    /\ timeline[resp.id] # << >>
    /\ incidents[resp.id].created_at = now
    /\ Len(timeline[resp.id]) = 2

\* the events a creation committed for incident id in store (inc, tl): a created event
\* and, exactly when the row's assigned_to is non-empty, an assigned event
CommittedWithEvents(inc, tl, id) ==
    /\ id \in DOMAIN tl
    /\ Len(tl[id]) = (IF Truthy(inc[id].assigned_to) THEN 2 ELSE 1)
    /\ tl[id][1].event_type = "created"
    /\ tl[id][1].detail.assigned_to = inc[id].assigned_to
    /\ Truthy(inc[id].assigned_to) =>
          /\ tl[id][2].event_type = "assigned"
          /\ tl[id][2].detail = [assigned_to |-> inc[id].assigned_to]

\* C20: create_incident commits the row, its created event and, exactly when the
\* effective assigned_to is non-empty, an assigned event together: a new incident
\* appears with exactly these events, every stored incident's timeline begins with
\* its created event, no events exist without their incident, and a creation whose
\* write fails leaves no row and no event
C20_CreateIsAtomic ==
    [][/\ \A id \in DOMAIN incidents' \ DOMAIN incidents :
              CommittedWithEvents(incidents', timeline', id)
       /\ DOMAIN timeline' = DOMAIN incidents'
       /\ \A id \in DOMAIN incidents' :
              /\ timeline'[id] # << >>
              /\ timeline'[id][1].event_type = "created"
       /\ (resp'.op = "create_incident" /\ resp'.kind = "db_error")
              => UNCHANGED <<incidents, timeline, notes, hits, oncall_vars>>]_vars

C20_Witness ==
    /\ resp.op = "create_incident" /\ resp.kind = "created"
    /\ incidents[resp.id].assigned_to = "alice"
    /\ Len(timeline[resp.id]) = 2
    /\ timeline[resp.id][2].event_type = "assigned"

\* the note_added events in store: <<incident id, position in its timeline>>
NoteAddedEvents ==
    {p \in UNION {{<<id, i>> : i \in 1..Len(timeline[id])} : id \in DOMAIN timeline} :
        timeline[p[1]][p[2]].event_type = "note_added"}

\* C21: in every committed state each note_added event references exactly one stored
\* Note row of the same incident, written by the event's actor, and each stored Note
\* row is referenced by exactly one note_added event
C21_NotesMatchEvents ==
    /\ \A p \in NoteAddedEvents :
          LET event == timeline[p[1]][p[2]]
          IN /\ event.detail.note_id \in DOMAIN notes
             /\ notes[event.detail.note_id].incident_id = p[1]
             /\ notes[event.detail.note_id].author = event.actor
    /\ \A note_id \in DOMAIN notes :
          Cardinality({p \in NoteAddedEvents :
                          timeline[p[1]][p[2]].detail.note_id = note_id}) = 1

\* the events a step appended to the timeline of incident id
Appended(id) ==
    SubSeq(timeline'[id], Len(timeline[id]) + 1, Len(timeline'[id]))

\* what a step that served an update of incident id did about the assignee: a given
\* and different assigned_to is written and recorded by one assigned event
\* {previous, new}; otherwise assigned_to stays and no assigned event is appended
ReassignmentEffect(id, assigned_to) ==
    LET current == incidents[id]
        assigned == {i \in 1..Len(Appended(id)) : Appended(id)[i].event_type = "assigned"}
    IN IF assigned_to # None /\ assigned_to # current.assigned_to
       THEN /\ incidents'[id].assigned_to = assigned_to
            /\ Cardinality(assigned) = 1
            /\ \A i \in assigned :
                  Appended(id)[i].detail = [previous |-> current.assigned_to,
                                            new |-> assigned_to]
       ELSE /\ incidents'[id].assigned_to = current.assigned_to
            /\ assigned = {}

\* C22 as stated: every update call on an incident, whatever its answer, has the
\* reassignment effect
C22_ReassignmentLiteral ==
    [][ ( /\ resp'.op = "update_incident" /\ resp'.id \in DOMAIN incidents
          /\ now' = now )
        => ReassignmentEffect(resp'.id, resp'.assigned_to) ]_vars

\* C22: every update call that succeeds has the reassignment effect: a given and
\* different assigned_to is written with exactly one assigned event {previous, new},
\* an absent or equal one changes no assignee and appends no assigned event, whether
\* or not the call also changes the status
C22_Reassignment ==
    [][ ( /\ resp'.op = "update_incident" /\ resp'.id \in DOMAIN incidents
          /\ resp'.kind = "ok" /\ now' = now )
        => ReassignmentEffect(resp'.id, resp'.assigned_to) ]_vars

\* a call that changed the status and the assignee was served
C22_Witness ==
    /\ resp.op = "update_incident" /\ resp.kind = "ok"
    /\ resp.status # None /\ resp.status # resp.was
    /\ resp.assigned_to = "bob" /\ incidents[resp.id].assigned_to = "bob"
    /\ \E i \in 1..Len(timeline[resp.id]) :
          /\ timeline[resp.id][i].event_type = "assigned"
          /\ timeline[resp.id][i].detail = [previous |-> None, new |-> "bob"]

----------------------------------------------------------------------------
\* The notification of a correlated alert (SpecOutage)

\* what the caller of POST /api/v1/alerts is answered
Returned(answer) ==
    [kind |-> answer.kind, action |-> answer.action,
     incident_id |-> answer.incident_id, alert_id |-> answer.alert_id]

\* the outcome of the notification request makes no difference to what create_alert
\* stores and answers in the current state
C23_CreateAlertIgnoresNotify ==
    \A find \in {"ok", "unreachable"}, create \in Outcomes, link \in {"ok", "unreachable"},
       store_ok \in BOOLEAN, notify \in Outcomes :
        LET existing == find_open_incident("api", "high", CORRELATION_WINDOW_MINUTES)
            failed == create_alert_result("api", "high", existing, find, create, "alice",
                                          link, store_ok, notify)
            served == create_alert_result("api", "high", existing, find, create, "alice",
                                          link, store_ok, "ok")
        IN /\ failed.store = served.store
           /\ failed.alerts = served.alerts
           /\ Returned(failed.answer) = Returned(served.answer)

\* the same for AlertService.process_alert
C23_ProcessAlertIgnoresNotify ==
    \A create \in Outcomes, db_ok \in BOOLEAN, notify \in Outcomes :
        LET existing == find_existing_incident("api", "high", CORRELATION_WINDOW_MINUTES)
            failed == process_alert_result("api", "high", existing, create, "alice",
                                           db_ok, notify)
            served == process_alert_result("api", "high", existing, create, "alice",
                                           db_ok, "ok")
        IN /\ failed.store = served.store
           /\ failed.alerts = served.alerts
           /\ Returned(failed.answer) = Returned(served.answer)

\* C23: an alert request sends the notification exactly when it is answered with
\* action existing_incident (never for new_incident, never when it is answered with
\* an error), only with the alert row stored, and whether the notification is
\* delivered or fails changes neither the answer nor anything stored
C23_NotificationIsBestEffort ==
    /\ resp.op = "process_alert"
          => /\ resp.notify # "none"
                   <=> (resp.kind = "accepted" /\ resp.action = "existing_incident")
             /\ resp.notify # "none" => resp.alert_id \in DOMAIN alerts
    /\ C23_CreateAlertIgnoresNotify
    /\ C23_ProcessAlertIgnoresNotify

\* AlertService.process_alert joined an alert to an incident, stored it and answered
\* accepted although the notification service could not be reached
C23_Witness ==
    /\ resp.op = "process_alert" /\ resp.handler = "process_alert"
    /\ resp.action = "existing_incident" /\ resp.notify = "unreachable"
    /\ resp.kind = "accepted"
    /\ resp.alert_id \in DOMAIN alerts
    /\ alerts[resp.alert_id].incident_id = resp.incident_id
    /\ incidents[resp.incident_id].alert_count = 2

----------------------------------------------------------------------------
\* The create request of alert ingestion (SpecAlerts)

\* the incidents a step inserted through the incident API (not by the local fallback)
CreatedRemotely ==
    {id \in DOMAIN incidents' \ DOMAIN incidents :
        "fallback" \notin DOMAIN timeline'[id][1].detail}

\* the answer of a step names an incident that the step inserted by the local fallback
FellBack ==
    /\ HasId(resp'.incident_id)
    /\ resp'.incident_id \in DOMAIN incidents' \ DOMAIN incidents
    /\ "fallback" \in DOMAIN timeline'[resp'.incident_id][1].detail

\* C24: an alert request sends at most one create request to the incident API, and
\* when that one request fails or times out the call does not try again but goes on
\* to the local fallback
C24_OneCreateThenFallback ==
    [][ (resp'.op = "process_alert" /\ log' # log)
        => /\ Cardinality(CreatedRemotely) <= 1
           /\ (resp'.create = "none") => CreatedRemotely = {}
           /\ (resp'.create \in {"unreachable", "lost"} /\ resp'.kind = "accepted")
                 => FellBack ]_vars

----------------------------------------------------------------------------
\* Alert ingestion while its collaborators stop answering.  Every request to the
\* incident API and to the notification service is made through
\* httpx.Client(timeout=...) inside try / except Exception: a request that gets no
\* answer ends when the timeout expires and the handler goes on.

\* the incident API and the notification service answer at clock reading 0; from the
\* first tick on they answer nothing, for ever
Responds == now = 0

\* a client without timeout: a request that gets no answer never ends
RequestOutcomes_noTimeout(responds) ==
    IF responds THEN {"ok"} ELSE {}

\* how a request can end for the caller: answered, or, with no answer, ended by the
\* timeout, whether the request never arrived or was served and its answer is lost
RequestOutcomes(responds) ==
    IF responds THEN {"ok"} ELSE {"unreachable", "lost"}

\* the steps by which worker w goes on with the call it is serving
Continue(w) ==
    \/ \E create \in RequestOutcomes(Responds) : create_alert_create(w, create, "alice")
    \/ \E link \in RequestOutcomes(Responds) : create_alert_link(w, link)
    \/ \E store_ok \in BOOLEAN, notify \in RequestOutcomes(Responds) :
          create_alert_store(w, store_ok, notify)
    \/ \E create \in RequestOutcomes(Responds) : process_alert_create(w, create, "alice")
    \/ \E db_ok \in BOOLEAN, notify \in RequestOutcomes(Responds) :
          process_alert_commit(w, db_ok, notify)

\* one worker serves the requests: no step of a call waits for another call
Serving == {"w1"}

NextLive ==
    \/ Tick(1)
    \/ \E w \in Serving, find \in RequestOutcomes(Responds) \ {"lost"} :
          create_alert_find(w, "api", "high", find)
    \/ \E w \in Serving : process_alert_find(w, "api", "high")
    \/ \E w \in Serving : Continue(w)

\* a worker serving a request runs its handler on (each request is served by a thread
\* of its own); nothing is assumed about the clock or about new requests arriving
SpecLive == Init /\ [][NextLive]_vars /\ \A w \in Serving : WF_vars(Continue(w))

----------------------------------------------------------------------------
\* Stored alerts under everything that follows them: further alerts, transitions,
\* reassignments, notes and link-alert requests

NextStored ==
    \/ \E existing \in {find_open_incident("api", "high", CORRELATION_WINDOW_MINUTES)},
          create \in {"ok", "unreachable"}, store_ok \in BOOLEAN :
          create_alert("api", "high", existing, "ok", create, None, "ok", store_ok, "ok")
    \/ \E existing \in {find_existing_incident("api", "high", CORRELATION_WINDOW_MINUTES)},
          create \in {"ok", "unreachable"}, db_ok \in BOOLEAN :
          process_alert("api", "high", existing, create, None, db_ok, "ok")
    \/ \E id \in DOMAIN incidents, status \in {None, "resolved"},
          note \in {None, "note"}, assigned_to \in {None, "bob"} :
          update_incident(id, status, note, assigned_to)
    \/ \E id \in Ids, alert_id \in DOMAIN alerts :
          link_alert_to_incident(id, alert_id, "fp")

SpecStored == Init /\ [][NextStored]_vars

\* C26: a stored alert is never changed: every step leaves each stored alert, its
\* incident_id included, as it was inserted; a step stores at most one alert, under
\* an id no stored alert has, with the incident id the request is answered with
C26_StoredAlertsImmutable ==
    [][ /\ \A a \in DOMAIN alerts : a \in DOMAIN alerts' /\ alerts'[a] = alerts[a]
        /\ alerts' # alerts
              => /\ resp'.op = "process_alert"
                 /\ resp'.alert_id \notin DOMAIN alerts
                 /\ DOMAIN alerts' = DOMAIN alerts \cup {resp'.alert_id}
                 /\ alerts'[resp'.alert_id].incident_id = resp'.incident_id ]_vars

\* two alerts are stored, one without an incident and one with the incident created
\* after it, and that incident has since been reassigned with a note
C26_Witness ==
    /\ Cardinality(DOMAIN alerts) = 2
    /\ \E a, b \in DOMAIN alerts :
          /\ a < b /\ ~HasId(alerts[a].incident_id) /\ HasId(alerts[b].incident_id)
          /\ resp.op = "update_incident" /\ resp.kind = "ok"
          /\ resp.id = alerts[b].incident_id
          /\ resp.note # None /\ resp.assigned_to = "bob"

----------------------------------------------------------------------------
\* The fingerprint of an alert.  A text is a sequence of tokens: single characters
\* ("dotless_i" is U+0131), and the word of a severity, which a service or a message
\* may contain as well.

\* str.lower(), character by character: I becomes i; the dotless i is lowercase
\* already and stays
LowerChar(c) ==
    CASE c = "I" -> "i"
      [] c = "HIGH" -> "high"
      [] OTHER -> c

\* str.upper(): i and the dotless i both become I
UpperChar(c) ==
    CASE c = "i" -> "I"
      [] c = "dotless_i" -> "I"
      [] c = "high" -> "HIGH"
      [] OTHER -> c

str_lower(s) ==
    [k \in 1..Len(s) |-> LowerChar(s[k])]

\* the whole message
message_prefix_whole(message) ==
    message

\* message[:100], with MaxPrefix for the 100
message_prefix(message) ==
    SubSeq(message, 1, IF Len(message) < MaxPrefix THEN Len(message) ELSE MaxPrefix)

\* f"{service}|{severity}|{message[:100]}".lower()
fingerprint_raw(service, severity, message) ==
    str_lower(service \o << "|" >> \o severity \o << "|" >> \o message_prefix(message))

\* hashlib.sha256(raw.encode()).hexdigest(): 64 hex characters that stand for raw
\* (the hash is taken to be injective)
sha256_hexdigest(raw) ==
    [sha256 |-> raw, length |-> 64]

\* _compute_fingerprint: the first 16 characters of the digest
compute_fingerprint(service, severity, message) ==
    LET digest == sha256_hexdigest(fingerprint_raw(service, severity, message))
    IN [digest EXCEPT !.length = IF @ < 16 THEN @ ELSE 16]

\* the texts the fingerprint is computed of
FingerprintChars == {"I", "dotless_i", "|", "high"}

FingerprintServices == {<< "I" >>, << "dotless_i" >>, << "I", "|", "high" >>}

FingerprintSeverities == {<< "high" >>, << "HIGH" >>}

FingerprintMessages ==
    UNION {[1..n -> FingerprintChars] : n \in 1..(MaxPrefix + 1)}

\* an alert has arrived and its fingerprint is still to be computed
InitFingerprint ==
    /\ incidents = <<>>
    /\ timeline = <<>>
    /\ notes = <<>>
    /\ alerts = <<>>
    /\ log = <<>>
    /\ linked = <<>>
    /\ now = 0
    /\ resp \in [op : {"alert"}, service : FingerprintServices,
                 severity : FingerprintSeverities, message : FingerprintMessages]
    /\ calls = [w \in Workers |-> Idle]
    /\ hits = <<>>
    /\ OnCallSeeded

\* the call of _compute_fingerprint for the alert that arrived, and its result
fingerprint_call ==
    /\ resp.op = "alert"
    /\ resp' = [op |-> "compute_fingerprint", service |-> resp.service,
                severity |-> resp.severity, message |-> resp.message,
                fingerprint |-> compute_fingerprint(resp.service, resp.severity,
                                                    resp.message)]
    /\ UNCHANGED <<incidents, timeline, notes, alerts, log, linked, now, calls, hits, oncall_vars>>

NextFingerprint ==
    fingerprint_call

SpecFingerprint == InitFingerprint /\ [][NextFingerprint]_vars

\* every character a text can be changed into
AllChars == FingerprintChars \cup {"i", "HIGH"}

\* the texts that are s with each character kept or replaced by one of Variant(c)
Rewritten(s, Variant(_)) ==
    LET RECURSIVE UpTo(_)
        UpTo(n) == IF n = 0 THEN {<< >>}
                   ELSE {Append(t, c) : t \in UpTo(n - 1), c \in Variant(s[n])}
    IN UpTo(Len(s))

\* c in either case
ChangedInCase(c) == {c, LowerChar(c), UpperChar(c)}

\* the characters with the lowercase form of c
SameLower(c) == {d \in AllChars : LowerChar(d) = LowerChar(c)}

\* the fingerprint of the last call is also that of its arguments rewritten by Variant
SameFingerprintUnder(Variant(_)) ==
    \A service \in Rewritten(resp.service, Variant),
       severity \in Rewritten(resp.severity, Variant),
       message \in Rewritten(resp.message, Variant) :
        compute_fingerprint(service, severity, message) = resp.fingerprint

\* two messages agree on their first MaxPrefix characters
AgreeOnPrefix(m1, m2) ==
    \A k \in 1..MaxPrefix :
        /\ k <= Len(m1) <=> k <= Len(m2)
        /\ k <= Len(m1) => m1[k] = m2[k]

\* the fingerprint of the last call is that of the same call recomputed, that of every
\* message with the same first MaxPrefix characters, and 16 characters long
DeterministicTruncated ==
    /\ resp.fingerprint = compute_fingerprint(resp.service, resp.severity, resp.message)
    /\ \A message \in FingerprintMessages :
          AgreeOnPrefix(message, resp.message)
             => compute_fingerprint(resp.service, resp.severity, message) = resp.fingerprint
    /\ resp.fingerprint.length = 16

Readings(raw) ==
    {p \in (1..Len(raw)) \X (1..Len(raw)) :
        /\ 1 < p[1] /\ p[1] < p[2] /\ p[2] < Len(raw)
        /\ raw[p[1]] = "|" /\ raw[p[2]] = "|"
        /\ SubSeq(raw, p[1] + 1, p[2] - 1) \in {str_lower(v) : v \in FingerprintSeverities}
        /\ Len(raw) - p[2] <= MaxPrefix}

\* C28: two different normalized (service, severity, message-prefix) tuples never
\* give the same hashed text: the text of a call can be read as
\* service|severity|message-prefix in one way only, the call's own, also when the
\* service or the message contains the delimiter
C28_RawDeterminesTuple ==
    resp.op = "compute_fingerprint"
        => Readings(resp.fingerprint.sha256)
              = {<<Len(resp.service) + 1, Len(resp.service) + Len(resp.severity) + 2>>}

\* ---------------------------------------------------------------------------
\* The correlation decision and the content of the alert
\* ---------------------------------------------------------------------------

\* Alerts of one (service, severity) pair that differ in their message, and so in
\* their fingerprint; source, labels and timestamp are only stored
DecisionMessages == {<<"I">>, <<"|">>}

AlertsReceived == [service : {"api"}, severity : {"high"}, message : DecisionMessages]

\* fingerprint = _compute_fingerprint(service, severity, alert.message)
AlertFingerprint(alert) ==
    compute_fingerprint(<<alert.service>>, <<alert.severity>>, alert.message)

\* a lookup that joins only an incident to which an alert of the same fingerprint is
\* already attached
lookup_existing_sameFingerprint(alert) ==
    LET found == find_open_incident(alert.service, alert.severity,
                                    CORRELATION_WINDOW_MINUTES)
    IN IF \E a \in DOMAIN alerts : /\ alerts[a].incident_id = found
                                   /\ alerts[a].fingerprint = AlertFingerprint(alert)
       THEN found ELSE NoId
\* existing = _find_existing_incident(service, severity): what the handler hands to
\* the lookup out of the alert it received
lookup_existing(alert) ==
    find_open_incident(alert.service, alert.severity, CORRELATION_WINDOW_MINUTES)

\* create_alert of main.py on a received alert
create_alert_received(alert, find, create, link, store_ok) ==
    LET result == create_alert_with(AlertFingerprint(alert), alert.service,
                                    alert.severity, lookup_existing(alert), find,
                                    create, None, link, store_ok, "ok")
    IN /\ Len(log) < MaxAlerts
       /\ incidents' = result.store.incidents
       /\ timeline' = result.store.timeline
       /\ linked' = result.store.linked
       /\ alerts' = result.alerts
       /\ log' = Append(log, Logged(result.answer))
       /\ resp' = result.answer
       /\ UNCHANGED <<notes, now, calls, hits, oncall_vars>>

\* AlertService.process_alert on a received alert
process_alert_received(alert, create, db_ok) ==
    LET result == process_alert_with(AlertFingerprint(alert), alert.service,
                                     alert.severity, lookup_existing(alert), create,
                                     None, db_ok, "ok")
    IN /\ Len(log) < MaxAlerts
       /\ incidents' = result.store.incidents
       /\ timeline' = result.store.timeline
       /\ linked' = result.store.linked
       /\ alerts' = result.alerts
       /\ log' = Append(log, Logged(result.answer))
       /\ resp' = result.answer
       /\ UNCHANGED <<notes, now, calls, hits, oncall_vars>>

NextDecision ==
    \/ Tick(CORRELATION_WINDOW_MINUTES)
    \/ \E alert \in AlertsReceived, find \in {"ok", "unreachable"},
          create \in {"ok", "unreachable"} :
          create_alert_received(alert, find, create, "ok", TRUE)
    \/ \E alert \in AlertsReceived, create \in {"ok", "unreachable"} :
          process_alert_received(alert, create, TRUE)
    \/ \E id \in DOMAIN incidents : update_incident(id, "resolved", None, None)

SpecDecision == Init /\ [][NextDecision]_vars

\* two answers carry the same decision
SameDecision(r1, r2) ==
    /\ r1.answer.action = r2.answer.action
    /\ r1.answer.action = "existing_incident"
           => r1.answer.incident_id = r2.answer.incident_id

\* C29, for create_alert: against one store state and with the same outcomes of the
\* find-open and create requests, two alerts of one (service, severity) pair get the same action and,
\* when it is existing_incident, the same incident_id, whatever their messages
C29_CreateAlertDecision ==
    \A a1, a2 \in AlertsReceived :
        \A find \in {"ok", "unreachable"}, create \in {"ok", "unreachable"} :
            SameDecision(
                create_alert_with(AlertFingerprint(a1), a1.service, a1.severity,
                                  lookup_existing(a1), find, create, None, "ok",
                                  TRUE, "ok"),
                create_alert_with(AlertFingerprint(a2), a2.service, a2.severity,
                                  lookup_existing(a2), find, create, None, "ok",
                                  TRUE, "ok"))

\* C29, for AlertService.process_alert
C29_ProcessAlertDecision ==
    \A a1, a2 \in AlertsReceived :
        \A create \in {"ok", "unreachable"} :
            SameDecision(
                process_alert_with(AlertFingerprint(a1), a1.service, a1.severity,
                                   lookup_existing(a1), create, None, TRUE, "ok"),
                process_alert_with(AlertFingerprint(a2), a2.service, a2.severity,
                                   lookup_existing(a2), create, None, TRUE, "ok"))

\* C29: the correlation decision depends only on the (service, severity) pair and the
\* store state: two calls that differ only in the content of the alert, hence in its
\* fingerprint, run against the same store state, yield the same action and, when
\* the action is existing_incident, the same incident_id
C29_DecisionIgnoresContent ==
    /\ C29_CreateAlertDecision
    /\ C29_ProcessAlertDecision

\* an alert joined the incident opened by an alert of another fingerprint
C29_Witness ==
    /\ DOMAIN alerts = {1, 2}
    /\ alerts[1].fingerprint # alerts[2].fingerprint
    /\ alerts[1].incident_id = alerts[2].incident_id
    /\ resp.kind = "accepted"
    /\ resp.action = "existing_incident"
    /\ resp.incident_id = alerts[1].incident_id

\* ---------------------------------------------------------------------------
\* api-gateway: SlidingWindowRateLimiter
\* ---------------------------------------------------------------------------

\* SlidingWindowRateLimiter(max_requests, window_seconds): the gateway builds it with
\* (RATE_LIMIT_RPM, 60), the tests with (1, 60), (3, 60) and (5, 60)
max_requests == 2
window == 2

\* the client addresses that key the limiter
LimiterKeys == {"client-a", "client-b"}

\* self._hits[key] of a defaultdict(list)
HitsOf(h, key) == IF key \in DOMAIN h THEN h[key] ELSE <<>>

\* a hit exactly window seconds old counts as well
Unexpired_inclusive(t, cutoff) == t >= cutoff
\* t > cutoff: the hit is younger than the window
Unexpired(t, cutoff) == t > cutoff

\* [t for t in timestamps if t > cutoff]
Evict(timestamps, cutoff) == SelectSeq(timestamps, LAMBDA t : Unexpired(t, cutoff))

\* is_allowed(key) at time t on the hits h: the hits it leaves and the tuple
\* (allowed, remaining, retry_after) it returns
is_allowed_result(h, key, t) ==
    LET cutoff == t - window
        timestamps == Evict(HitsOf(h, key), cutoff)
        kept == [k \in DOMAIN h \cup {key} |-> IF k = key THEN timestamps ELSE h[k]]
    IN IF Len(timestamps) >= max_requests
       THEN [hits |-> kept,
             answer |-> [allowed |-> FALSE, remaining |-> 0,
                         retry_after |-> (timestamps[1] - cutoff) + 1]]
       ELSE [hits |-> [kept EXCEPT ![key] = Append(timestamps, t)],
             answer |-> [allowed |-> TRUE,
                         remaining |-> max_requests - (Len(timestamps) + 1),
                         retry_after |-> 0]]

\* one call of is_allowed(key); log keeps the key, the time and the answer
is_allowed(key) ==
    LET result == is_allowed_result(hits, key, now)
    IN /\ Len(log) < MaxCalls
       /\ hits' = result.hits
       /\ resp' = [op |-> "is_allowed", key |-> key, at |-> now] @@ result.answer
       /\ log' = Append(log, resp')
       /\ UNCHANGED <<incidents, timeline, notes, alerts, linked, now, calls, oncall_vars>>

\* time.monotonic() moves on
monotonic ==
    /\ now < MaxClock
    /\ now' = now + 1
    /\ UNCHANGED <<incidents, timeline, notes, alerts, log, linked, resp, calls, hits, oncall_vars>>

NextLimiter ==
    \/ monotonic
    \/ \E key \in LimiterKeys : is_allowed(key)

SpecLimiter == Init /\ [][NextLimiter]_vars

\* the calls of the history h for key that were allowed at a time in the set times
AllowedIn(h, key, times) ==
    {i \in DOMAIN h : h[i].key = key /\ h[i].allowed /\ h[i].at \in times}

\* the window that ends at t and leaves out its first instant
WindowTo(t) == {u \in (0 - window)..MaxClock : u > t - window /\ u <= t}

\* the window that ends at t, both ends included
ClosedWindowTo(t) == {u \in (0 - window)..MaxClock : u >= t - window /\ u <= t}

\* a step is a call of is_allowed
IsCall == log' # log

\* what the statement says of one call, with Span(t) for a time window of length window
\* that ends at t and Window(t) for the last window of a call at t
LimiterContract(Span(_), Window(_)) ==
    IsCall =>
        LET key == resp'.key
        IN /\ \A k \in LimiterKeys, t \in 0..MaxClock :
                  Cardinality(AllowedIn(log', k, Span(t))) <= max_requests
           /\ ~resp'.allowed <=>
                  Cardinality(AllowedIn(log, key, Window(now))) = max_requests
           /\ ~resp'.allowed =>
                  /\ Len(HitsOf(hits', key)) = Len(Evict(HitsOf(hits, key), now - window))
                  /\ AllowedIn(log', key, Window(now)) = AllowedIn(log, key, Window(now))
           /\ resp'.remaining =
                  max_requests - Cardinality(AllowedIn(log', key, Window(now)))
           /\ Len(HitsOf(hits', key)) = Cardinality(AllowedIn(log', key, Window(now)))
           /\ \A k \in LimiterKeys \ {key}, t \in now..MaxClock :
                  /\ HitsOf(hits', k) = HitsOf(hits, k)
                  /\ is_allowed_result(hits', k, t).answer
                         = is_allowed_result(hits, k, t).answer

\* C30 as stated, any time window of length window_seconds being any interval of that
\* length, its two ends included: at most max_requests calls of a key are allowed in
\* it, a call is denied exactly when max_requests allowed hits lie within the last
\* window, a denied call records no hit, remaining is max_requests minus the hits in
\* the window after the call, and a call for one key changes no outcome of another
C30_LimiterAnyWindow == [][LimiterContract(ClosedWindowTo, WindowTo)]_vars

\* C30 for the windows the code counts in, (t - window_seconds, t]: at most
\* max_requests calls of a key are allowed in any of them, a call is denied exactly
\* when max_requests allowed hits of its key lie in the one that ends now, a denied
\* call records no hit, remaining is max_requests minus the hits in the window after
\* the call, and a call for one key changes no outcome of another key
C30_Limiter == [][LimiterContract(WindowTo, WindowTo)]_vars

\* a key was denied and, its hits expired, allowed again, while the other key was
\* served in between
C30_Witness ==
    /\ resp.op = "is_allowed"
    /\ \E i, j, l \in DOMAIN log :
           /\ i < l /\ l < j
           /\ log[i].key = "client-a" /\ ~log[i].allowed
           /\ log[l].key = "client-b" /\ log[l].allowed
           /\ log[j].key = "client-a" /\ log[j].allowed /\ log[j].remaining = max_requests - 1

\* ---------------------------------------------------------------------------
\* oncall-service: overrides and the current on-call
\* ---------------------------------------------------------------------------

\* settings.DEFAULT_OVERRIDE_HOURS (8 in the code) and the hours of a day (24), scaled
DEFAULT_OVERRIDE_HOURS == 2
HoursPerDay == 2

\* settings.MAX_HISTORY_SIZE
MAX_HISTORY_SIZE == 10000

\* HistoryRepository.record_event: append, then trim the oldest; the event_id and the
\* timestamp of an event are not kept
record_event(h, event_type, team, details, t) ==
    LET appended == Append(h, [event_type |-> event_type, team |-> team,
                               details |-> details])
    IN IF Len(appended) > MAX_HISTORY_SIZE
       THEN SubSeq(appended, Len(appended) - MAX_HISTORY_SIZE + 1, Len(appended))
       ELSE appended

\* OverrideRepository.exists on the store ov
override_exists(ov, team) == \E i \in DOMAIN ov : ov[i].team = team

\* OverrideRepository.get_by_team on the store ov, for a team that has an override
override_of(ov, team) == ov[CHOOSE i \in DOMAIN ov : ov[i].team = team]

\* OverrideRepository.save: a dict keeps the place of a key it already holds
override_save(ov, team, record) ==
    IF override_exists(ov, team)
    THEN [i \in DOMAIN ov |-> IF ov[i].team = team THEN record ELSE ov[i]]
    ELSE Append(ov, record)

\* OverrideRepository.delete
override_delete(ov, team) == SelectSeq(ov, LAMBDA o : o.team # team)

\* an override is kept until the instant after its expires_at
Expired_late(o, t) == o.expires_at < t
\* datetime.fromisoformat(ov["expires_at"]) <= now
Expired(o, t) == o.expires_at <= t

\* cleanup_expired_overrides at time t: the overrides and the history it leaves
cleanup_expired_overrides(ov, h, t) ==
    LET expired == SelectSeq(ov, LAMBDA o : Expired(o, t))
        RECURSIVE Recorded(_, _)
        Recorded(hh, i) ==
            IF i > Len(expired) THEN hh
            ELSE Recorded(record_event(hh, "override_expired", expired[i].team,
                                       [user_name |-> expired[i].user_name,
                                        expired_at |-> expired[i].expires_at], t),
                          i + 1)
    IN [overrides |-> SelectSeq(ov, LAMBDA o : ~Expired(o, t)),
        history |-> Recorded(h, 1)]

\* the rotation index of compute_rotation at time t
rotation_index(rotation_type, t) ==
    IF rotation_type = "daily" THEN t \div HoursPerDay
    ELSE IF rotation_type = "biweekly" THEN (t \div (7 * HoursPerDay)) \div 2
    ELSE t \div (7 * HoursPerDay)

\* compute_rotation: the name of the current primary, None without primary members
compute_rotation(schedule, t) ==
    LET primary_members == SelectSeq(schedule.members, LAMBDA m : m.role = "primary")
    IN IF Len(primary_members) = 0 THEN None
       ELSE primary_members[(rotation_index(schedule.rotation_type, t)
                                 % Len(primary_members)) + 1].name

\* GET /oncall/current
get_current_oncall(team) ==
    IF team \notin DOMAIN schedules
    THEN /\ resp' = [op |-> "get_current_oncall", team |-> team, kind |-> "not_found"]
         /\ UNCHANGED <<incidents, timeline, notes, alerts, log, linked, now, calls, hits, oncall_vars>>
    ELSE LET cleaned == cleanup_expired_overrides(overrides, history, now)
             override == override_of(cleaned.overrides, team)
             current_primary == compute_rotation(schedules[team], now)
             previous_primary == IF team \in DOMAIN last_known_oncall
                                 THEN last_known_oncall[team] ELSE None
         IN /\ overrides' = cleaned.overrides
            /\ IF override_exists(cleaned.overrides, team)
               THEN /\ resp' = [op |-> "get_current_oncall", team |-> team, kind |-> "ok",
                                primary |-> override.user_name, override |-> TRUE,
                                expires_at |-> override.expires_at]
                    /\ history' = cleaned.history
                    /\ UNCHANGED last_known_oncall
               ELSE IF current_primary = None
               THEN /\ resp' = [op |-> "get_current_oncall", team |-> team, kind |-> "error"]
                    /\ history' = cleaned.history
                    /\ UNCHANGED last_known_oncall
               ELSE /\ resp' = [op |-> "get_current_oncall", team |-> team, kind |-> "ok",
                                primary |-> current_primary, override |-> FALSE]
                    /\ history' = IF previous_primary # None /\ previous_primary # current_primary
                                  THEN record_event(cleaned.history, "rotation_change", team,
                                                    [old_primary |-> previous_primary,
                                                     new_primary |-> current_primary], now)
                                  ELSE cleaned.history
                    /\ last_known_oncall' =
                           [k \in DOMAIN last_known_oncall \cup {team} |->
                               IF k = team THEN current_primary ELSE last_known_oncall[k]]
            /\ UNCHANGED <<incidents, timeline, notes, alerts, log, linked, now, calls, hits, schedules>>

\* POST /oncall/override; duration_hours = 0 is a request that names no duration
\* (None, which duration_hours or DEFAULT_OVERRIDE_HOURS treats as it treats 0)
set_override(team, user_name, duration_hours) ==
    /\ Len(history) < MaxEvents
    /\ IF team \notin DOMAIN schedules
       THEN /\ resp' = [op |-> "set_override", team |-> team, kind |-> "not_found"]
            /\ UNCHANGED <<overrides, history>>
       ELSE LET duration == IF duration_hours = 0
                            THEN DEFAULT_OVERRIDE_HOURS ELSE duration_hours
                expires_at == now + duration
            IN /\ overrides' = override_save(overrides, team,
                                   [team |-> team, user_name |-> user_name,
                                    duration_hours |-> duration, created_at |-> now,
                                    expires_at |-> expires_at])
               /\ history' = record_event(history, "override_start", team,
                                 [user_name |-> user_name, duration_hours |-> duration,
                                  expires_at |-> expires_at], now)
               /\ resp' = [op |-> "set_override", team |-> team, kind |-> "ok",
                           overridden_to |-> user_name, expires_at |-> expires_at]
    /\ UNCHANGED <<incidents, timeline, notes, alerts, log, linked, now, calls, hits, schedules, last_known_oncall>>

\* DELETE /oncall/override/{team}
remove_override(team) ==
    /\ IF ~override_exists(overrides, team)
       THEN /\ resp' = [op |-> "remove_override", team |-> team, kind |-> "not_found"]
            /\ UNCHANGED <<overrides, history>>
       ELSE /\ overrides' = override_delete(overrides, team)
            /\ history' = record_event(history, "override_end", team,
                              [user_name |-> override_of(overrides, team).user_name,
                               removed_manually |-> TRUE], now)
            /\ resp' = [op |-> "remove_override", team |-> team, kind |-> "ok"]
    /\ UNCHANGED <<incidents, timeline, notes, alerts, log, linked, now, calls, hits, schedules, last_known_oncall>>

\* GET /oncall/overrides
list_active_overrides ==
    LET cleaned == cleanup_expired_overrides(overrides, history, now)
    IN /\ overrides' = cleaned.overrides
       /\ history' = cleaned.history
       /\ resp' = [op |-> "list_active_overrides", kind |-> "ok",
                   listed |-> cleaned.overrides]
       /\ UNCHANGED <<incidents, timeline, notes, alerts, log, linked, now, calls, hits, schedules, last_known_oncall>>

\* DELETE /schedules/{team}: the schedule goes, and the override of the team with it
delete_schedule(team) ==
    /\ Len(history) < MaxEvents
    /\ IF team \notin DOMAIN schedules
       THEN /\ resp' = [op |-> "delete_schedule", team |-> team, kind |-> "not_found"]
            /\ UNCHANGED <<schedules, overrides, history>>
       ELSE /\ schedules' = [k \in DOMAIN schedules \ {team} |-> schedules[k]]
            /\ overrides' = override_delete(overrides, team)
            /\ history' = record_event(history, "schedule_deleted", team, <<>>, now)
            /\ resp' = [op |-> "delete_schedule", team |-> team, kind |-> "ok"]
    /\ UNCHANGED <<incidents, timeline, notes, alerts, log, linked, now, calls, hits, last_known_oncall>>

\* datetime.now(timezone.utc) moves on by an hour
hour_passes ==
    /\ now < MaxHours
    /\ now' = now + 1
    /\ UNCHANGED <<incidents, timeline, notes, alerts, log, linked, resp, calls, hits, oncall_vars>>

NextOnCall ==
    \/ hour_passes
    \/ \E team \in Teams : get_current_oncall(team)
    \/ \E team \in Teams, user_name \in {"zoe"}, duration_hours \in {0, 1} :
          set_override(team, user_name, duration_hours)
    \/ \E team \in Teams : remove_override(team)
    \/ list_active_overrides
    \/ \E team \in {"backend"} : delete_schedule(team)

SpecOnCall == Init /\ [][NextOnCall]_vars

\* the events of the on-call history that set or take away the override of a team
SetsOrRemoves(ev, team) ==
    /\ ev.team = team
    /\ ev.event_type \in {"override_start", "override_end", "schedule_deleted"}

\* the override_start event in force for the team at time t, as the history tells it:
\* the last override_start, not followed by a removal, whose expires_at lies ahead
InForce(team, t) ==
    {i \in DOMAIN history :
        /\ history[i].team = team
        /\ history[i].event_type = "override_start"
        /\ \A j \in DOMAIN history : j > i => ~SetsOrRemoves(history[j], team)
        /\ history[i].details.expires_at > t}

\* the events a step appended to the history
NewEvents == SubSeq(history', Len(history) + 1, Len(history'))

\* the step swept the expired overrides: each is gone, with one override_expired
\* event of its team, the others stay, and nothing else is recorded as expired
Swept ==
    /\ \A i \in DOMAIN overrides :
           IF overrides[i].expires_at <= now
           THEN /\ ~override_exists(overrides', overrides[i].team)
                /\ Cardinality({k \in DOMAIN NewEvents :
                                   /\ NewEvents[k].event_type = "override_expired"
                                   /\ NewEvents[k].team = overrides[i].team}) = 1
           ELSE /\ override_exists(overrides', overrides[i].team)
                /\ override_of(overrides', overrides[i].team) = overrides[i]
    /\ Len(overrides') <= Len(overrides)
    /\ \A k \in DOMAIN NewEvents :
           NewEvents[k].event_type = "override_expired"
               => \E i \in DOMAIN overrides : /\ overrides[i].team = NewEvents[k].team
                                              /\ overrides[i].expires_at <= now

\* a step that answered GET /oncall/current for a team with a schedule
Looked == now' = now /\ resp'.op = "get_current_oncall" /\ resp'.kind # "not_found"

\* a step that answered GET /oncall/overrides
Listed == now' = now /\ resp'.op = "list_active_overrides"

\* C31: from set_override until the override expires or is removed,
\* get_current_oncall returns the override user as primary with override = true;
\* after expiry or removal it returns the rotation primary; an override whose
\* expires_at has passed is deleted, with one override_expired event, by the next
\* lookup or listing, and is never returned
C31_OverridePrecedence ==
    [][ /\ Looked =>
            /\ Swept
            /\ \A i \in InForce(resp'.team, now) :
                   /\ resp'.kind = "ok"
                   /\ resp'.override
                   /\ resp'.primary = history[i].details.user_name
                   /\ resp'.expires_at = history[i].details.expires_at
            /\ InForce(resp'.team, now) = {} =>
                   /\ resp'.kind = "ok"
                   /\ ~resp'.override
                   /\ resp'.primary = compute_rotation(schedules[resp'.team], now)
            /\ resp'.override => resp'.expires_at > now
        /\ Listed =>
            /\ Swept
            /\ resp'.listed = overrides'
            /\ \A i \in DOMAIN resp'.listed : resp'.listed[i].expires_at > now
      ]_vars

\* an override of platform was set and expired, the lookup deleted it with its event
\* and returned the rotation primary
C31_Witness ==
    /\ resp.op = "get_current_oncall"
    /\ resp.team = "platform"
    /\ resp.kind = "ok"
    /\ ~resp.override
    /\ \E i, j \in DOMAIN history :
           /\ i < j
           /\ history[i].event_type = "override_start" /\ history[i].team = "platform"
           /\ history[j].event_type = "override_expired" /\ history[j].team = "platform"
    /\ ~override_exists(overrides, "platform")

----------------------------------------------------------------------------
\* The record of an incident and its status

\* the four lifecycle columns of a row that are set
LifecycleSet(row) ==
    {c \in {"acknowledged_at", "mtta_seconds", "resolved_at", "mttr_seconds"} :
        row[c] # NoTime}

\* C32: in every committed state of every incident, status open goes with
\* acknowledged_at, mtta_seconds, resolved_at and mttr_seconds all null, status
\* acknowledged or in_progress with acknowledged_at and mtta_seconds set and
\* resolved_at and mttr_seconds null, status resolved with all four set, after any
\* sequence and any interleaving of transition, link_alert and note operations
C32_RecordConsistent ==
    \A id \in DOMAIN incidents :
        LET row == incidents[id]
        IN /\ row.status = "open" => LifecycleSet(row) = {}
           /\ row.status \in {"acknowledged", "in_progress"}
                  => LifecycleSet(row) = {"acknowledged_at", "mtta_seconds"}
           /\ row.status = "resolved"
                  => LifecycleSet(row) = {"acknowledged_at", "mtta_seconds",
                                          "resolved_at", "mttr_seconds"}

\* C33: whenever both are set on an incident, acknowledged_at <= resolved_at and
\* mtta_seconds <= mttr_seconds, after any sequence or interleaving of transition
\* calls, and both metrics are measured from the same created_at
C33_AckBeforeResolve ==
    \A id \in DOMAIN incidents :
        LET row == incidents[id]
        IN /\ (row.acknowledged_at # NoTime /\ row.resolved_at # NoTime)
                  => row.acknowledged_at <= row.resolved_at
           /\ (row.mtta_seconds # NoTime /\ row.mttr_seconds # NoTime)
                  => row.mtta_seconds <= row.mttr_seconds
           /\ row.mtta_seconds # NoTime
                  => row.mtta_seconds = row.acknowledged_at - row.created_at
           /\ row.mttr_seconds # NoTime
                  => row.mttr_seconds = row.resolved_at - row.created_at

----------------------------------------------------------------------------
\* Alert ingestion interleaved with transitions of the incident

\* one call of each handler at a time, step by step, while incidents are resolved
NextLinkRace ==
    \/ Tick(1)
    \/ \E w \in Serving : create_alert_find(w, "api", "high", "ok")
    \/ \E w \in Serving, create \in {"ok", "unreachable"} : create_alert_create(w, create, None)
    \/ \E w \in Serving, link \in {"ok", "unreachable"} : create_alert_link(w, link)
    \/ \E w \in Serving : create_alert_store(w, TRUE, "ok")
    \/ \E w \in Serving : process_alert_find(w, "api", "high")
    \/ \E w \in Serving, create \in {"ok", "unreachable"} : process_alert_create(w, create, None)
    \/ \E w \in Serving : process_alert_commit(w, TRUE, "ok")
    \/ \E id \in DOMAIN incidents : update_incident(id, "resolved", None, None)

SpecLinkRace == Init /\ [][NextLinkRace]_vars

\* C34: an alert is linked only to a non-resolved incident: under any interleaving of
\* process_alert with transition calls, when the link step commits (alert_count
\* incremented), the target incident's status is not resolved; an incident that was
\* resolved between the lookup and the link never receives the alert
C34_LinkOnlyToNonResolved ==
    [][ \A id \in DOMAIN incidents :
            incidents'[id].alert_count > incidents[id].alert_count
                => incidents[id].status # "resolved" ]_vars

\* C35: each call that ingests an alert causes at most one incident to come into
\* existence, in every failure scenario: when the create request is processed by the
\* incident API but its response is lost, the call does not end with both the
\* remotely created incident and a local fallback incident
C35_AtMostOneIncidentPerCall ==
    [][ log' # log
            => Cardinality(DOMAIN incidents' \ DOMAIN incidents) <= 1 ]_vars

\* C36: a new incident is created only after a lookup that completed and reported no
\* match: a failed or timed-out lookup is not taken for "no open incident", so no
\* alert is attached to a freshly created incident while a matching non-resolved
\* incident inside the window existed for the whole call (calls do not overlap)
C36_CreateOnlyAfterMiss ==
    [][ ( /\ AlertServed
          /\ resp'.kind = "accepted"
          /\ resp'.action = "new_incident"
          /\ resp'.incident_id \in DOMAIN incidents' \ DOMAIN incidents )
        => OpenInWindow(resp'.service, resp'.severity) = {} ]_vars

\* the alert row the answered call stored
StoredRow == alerts'[resp'.alert_id]

\* C37: the action returned matches what happened: new_incident implies that the
\* returned incident_id is non-null and names an incident created during this call,
\* existing_incident that it names an incident that existed before the call, and the
\* returned incident_id always equals the incident_id stored in the alert row
C37_ActionMatchesOutcome ==
    [][ (AlertServed /\ resp'.kind = "accepted")
        => /\ resp'.action = "new_incident"
                  => /\ HasId(resp'.incident_id)
                     /\ resp'.incident_id \in DOMAIN incidents' \ DOMAIN incidents
           /\ resp'.action = "existing_incident"
                  => resp'.incident_id \in DOMAIN incidents
           /\ resp'.alert_id \in DOMAIN alerts'
           /\ StoredRow.incident_id = resp'.incident_id ]_vars

\* alerts served one after another with the incident API answering every request,
\* while time passes and incidents are resolved
NextReachable ==
    \/ Tick(CORRELATION_WINDOW_MINUTES)
    \/ \E existing \in {find_open_incident("api", "high", CORRELATION_WINDOW_MINUTES)},
          oncall \in {None, "alice"}, store_ok \in BOOLEAN :
          create_alert("api", "high", existing, "ok", "ok", oncall, "ok", store_ok, "ok")
    \/ \E existing \in {find_existing_incident("api", "high", CORRELATION_WINDOW_MINUTES)},
          oncall \in {None, "alice"}, db_ok \in BOOLEAN :
          process_alert("api", "high", existing, "ok", oncall, db_ok, "ok")
    \/ \E id \in DOMAIN incidents : update_incident(id, "resolved", None, None)

SpecReachable == Init /\ [][NextReachable]_vars

\* C38: while alerts are served one after another, the incident API is reachable and
\* incidents are created only by the alert handlers, at every moment at most one
\* non-resolved incident per (service, severity) has created_at inside the
\* correlation window; a second incident of the pair appears only after the first
\* was resolved or fell out of the window
C38_OneOpenIncidentPerPair ==
    \A id1, id2 \in DOMAIN incidents :
        ( /\ incidents[id1].service = incidents[id2].service
          /\ incidents[id1].severity = incidents[id2].severity
          /\ incidents[id1].status # "resolved"
          /\ incidents[id2].status # "resolved"
          /\ incidents[id1].created_at > now - CORRELATION_WINDOW_MINUTES
          /\ incidents[id2].created_at > now - CORRELATION_WINDOW_MINUTES )
        => id1 = id2

\* a second incident of the pair was created after the first left the window, every
\* request answered
C38_Witness ==
    /\ Len(log) = 2
    /\ DOMAIN incidents = {1, 2}
    /\ incidents[1].status # "resolved"
    /\ incidents[1].created_at <= now - CORRELATION_WINDOW_MINUTES
    /\ incidents[2].created_at = now
    /\ resp.action = "new_incident" /\ resp.incident_id = 2

----------------------------------------------------------------------------
\* A request for the status the incident already has (Spec)

\* the step served an update of an existing incident that asked for the status the
\* incident had
SameStatusCall ==
    /\ resp'.op = "update_incident" /\ resp'.id \in DOMAIN incidents
    /\ resp'.status # None /\ resp'.status = incidents[resp'.id].status
    /\ now' = now

\* the columns of the lifecycle
LifecycleColumns(row) ==
    <<row.status, row.acknowledged_at, row.resolved_at, row.mtta_seconds,
      row.mttr_seconds>>

\* C39: a transition call whose requested status equals the incident's current status
\* (resolved -> resolved included) succeeds and is a no-op on the lifecycle: status,
\* acknowledged_at, resolved_at, mtta_seconds and mttr_seconds are unchanged and no
\* status event is appended to the timeline; only a differing assigned_to or a note in
\* the same call takes effect
C39_SameStatusIsNoOp ==
    [][ SameStatusCall =>
          LET id == resp'.id
          IN /\ resp'.kind = "ok"
             /\ LifecycleColumns(incidents'[id]) = LifecycleColumns(incidents[id])
             /\ \A i \in 1..Len(Appended(id)) :
                   Appended(id)[i].event_type \in {"assigned", "note_added"}
             /\ ReassignmentEffect(id, resp'.assigned_to)
             /\ [incidents' EXCEPT ![id].assigned_to = incidents[id].assigned_to]
                   = incidents
             /\ (~ Truthy(resp'.note) =>
                    /\ notes' = notes
                    /\ \A i \in 1..Len(Appended(id)) :
                          Appended(id)[i].event_type # "note_added")
             /\ (resp'.assigned_to = None /\ ~ Truthy(resp'.note) =>
                    /\ timeline' = timeline /\ incidents' = incidents) ]_vars

\* a resolved incident was asked to be resolved again and to change hands: the call
\* was served, the incident is still resolved by its one resolved event, and bob has it
C39_Witness ==
    /\ resp.op = "update_incident" /\ resp.kind = "ok"
    /\ resp.status = "resolved" /\ resp.was = "resolved"
    /\ resp.assigned_to = "bob" /\ resp.id \in DOMAIN incidents
    /\ incidents[resp.id].status = "resolved"
    /\ incidents[resp.id].assigned_to = "bob"
    /\ Len(SelectSeq(timeline[resp.id], LAMBDA ev : ev.event_type = "resolved")) = 1
    /\ \E i \in 1..Len(timeline[resp.id]) :
          /\ timeline[resp.id][i].event_type = "assigned"
          /\ timeline[resp.id][i].detail = [previous |-> None, new |-> "bob"]

====
